---- MODULE Spec2Model ----
(***************************************************************************)
(* Model of the VVM BLE -> SignalK connector:                              *)
(*   - BleDeviceConnection (the DeviceSession): run loop, device init,     *)
(*     streaming watchdog, disconnect callback, close, notification        *)
(*     handling and telemetry dispatch (src/vvm_to_signalk/ble_connection) *)
(*   - SignalKPublisher (the TelemetryPublisher): run loop, connect with   *)
(*     retry, authenticate, receive, close (signalk_publisher.py)          *)
(* The program runs on one asyncio event loop: a task runs until it        *)
(* awaits something that is not ready.  Every pc value below is such a     *)
(* suspension point, except the ones in BleAtomicPcs / SkAtomicPcs, which  *)
(* are positions between two statements of one uninterrupted run; while a  *)
(* task is at one of those no other task or callback takes a step.         *)
(***************************************************************************)
EXTENDS Naturals, Integers, FiniteSets, Sequences, TLC

VARIABLES
    \* ---- BleDeviceConnection ----
    blePc,              \* position of the run() task
    abort,              \* self.__abort
    cancelDone,         \* self.__cancel_signal.done()
    cancelBy,           \* what resolved the current signal: none/disconnect/watchdog/close
    cancelStale,        \* the current signal was resolved during an iteration that has ended
    iterated,           \* an iteration of _device_init_and_loop has ended
    found,              \* found_device is not None
    linkUp,             \* the BleakClient connection is open
    exc,                \* exception travelling up through the try block: none/Exception/CancelledError
    k,                  \* index of the descriptive read (1..4) or of the configuration request (1..3)
    monitor,            \* the _monitor_streaming task: none/sleeping/finished
    sleepLeft,          \* time left of the watchdog's asyncio.sleep
    watchdogs,          \* _monitor_streaming tasks created and neither finished nor cancelled
    streaming_timeout,  \* config.streaming_timeout
    lastAge,            \* loop.time() - self.__last_message_time, saturating; -1: last_message_time is None
    engine_parameters,  \* self.__engine_parameters: notification header -> parameter type
    queue,              \* self.__notification_queue: key -> absent/pending/cancelled
    got,                \* chunk keys whose future of the current gather is resolved
    poisoned,           \* a future handed to the current gather was already cancelled
    cfgFut,             \* the future awaited by _request_configuration_data: none/pending/raw/int/cancelled
    subs,               \* characteristics with notifications started on the open connection
    tasks,              \* per receiver: delivery tasks created and not yet completed
    bleClosePc,         \* position inside BleDeviceConnection.close(): idle/abort_set/done
    health,             \* the shared health map
    event,              \* the handler call made by the last step, for the properties
    \* ---- SignalKPublisher ----
    skPc,               \* position of the run() task
    skAbort,            \* self.__abort
    socket_connected,   \* self.__socket_connected
    wsOpen,             \* the websocket connection is open at the transport
    username,           \* config.username is not None
    login,              \* the login request's entry in self.__notifications: absent/pending
    auth_token,         \* an auth token was stored
    skClosePc,          \* position inside SignalKPublisher.close(): idle/closing/done
    retry_interval,     \* config.retry_interval, in seconds
    skSleep,            \* seconds left of the `asyncio.sleep` of the retry loop
    skSlept,            \* seconds slept since the last connection attempt returned
    send_unknown,       \* config.send_unknown_parameters
    should_log,         \* self.__should_log_connection_down
    accPc,              \* position of an accept_engine_data call: idle/sending
    accEvent,           \* the accept_engine_data call of the last step and what it did
    dropsSince,         \* values dropped as disconnected since the last successful send
    logsSince,          \* of those drops, how many were logged
    \* ---- ConfigDecoder, on its own ----
    known_data,         \* self.__known_data: the chunks in arrival order
    has_all_data,       \* self.__has_all_data: None/True/False
    parameters,         \* self.__parameters
    decEvent,           \* the decoder call of the last step and what it returned
    \* ---- Conversion, and the path of one reading from the handler to the delta ----
    cvIn,               \* the arguments: formula, value, parameter type, table, payload, overrides
    cvOut,              \* the call made by the last step and what it returned
    delivered,          \* accept_engine_data tasks created for the publisher and not yet run
    \* ---- FuturesQueue (the Correlator), on its own ----
    fq,                 \* self.__queue: key -> the promise stored (0: no entry)
    prom,               \* every promise created: state, value, key, callbacks
    nextP,              \* the next promise to be created
    waiter,             \* the task inside wait_for_data
    fqEvent             \* the call made by the last step and what it returned

bleVars == <<blePc, abort, cancelDone, cancelBy, cancelStale, iterated, found, linkUp, exc, k,
             monitor, sleepLeft, watchdogs, streaming_timeout, lastAge, engine_parameters, queue,
             got, poisoned, cfgFut, subs, tasks, bleClosePc>>
retryVars == <<retry_interval, skSleep, skSlept>>
accVars == <<send_unknown, should_log, accPc, accEvent, dropsSince, logsSince>>
skVars == <<skPc, skAbort, socket_connected, wsOpen, username, login, auth_token, skClosePc,
            retryVars, accVars>>
cvVars == <<cvIn, cvOut, delivered>>
decVars == <<known_data, has_all_data, parameters, decEvent, cvVars>>
fqVars == <<fq, prom, nextP, waiter, fqEvent>>
vars == <<bleVars, skVars, fqVars, decVars, health, event>>

----------------------------------------------------------------------------
\* Bounds of the model.

\* Chunk keys of the parameter-table request (the source awaits 10, keys 0..9).
NumChunks == 2
\* The largest configured streaming timeout, in ticks.
MaxStreamingTimeout == 1
\* Registered data receivers.
NumReceivers == 2
\* Delivery tasks of one receiver that may be outstanding at once.
MaxPending == 1

\* Keys used with a FuturesQueue on its own.
NumKeys == 2
\* Promises a FuturesQueue creates in one behaviour.
MaxPromises == 2
\* Longest configured retry interval of the publisher, in seconds
MaxRetryInterval == 2
\* Chunks held by one decoder
MaxChunks == 3
\* Values dropped in a row while the publisher is disconnected
MaxDrops == 3
\* Done-callbacks attached in one behaviour.
MaxCallbacks == 1
\* Tokens of the longest conversion formula
MaxTokens == 3

ChunkKeys == 0 .. (NumChunks - 1)
Receivers == 1 .. NumReceivers

----------------------------------------------------------------------------
\* Data.

\* EngineParameterType values used by the tables below.
\* The first byte of a parameter table, and the highest EngineParameterType.
MagicByte == 40
LastParameterType == 15
ENGINE_RPM == 0
UNKNOWN_3 == 3
OIL_PRESSURE == 8

\* Characteristics a notification may come from.
CfgUuid == "DEVICE_CONFIG_UUID"
NextUuid == "DEVICE_NEXT_UUID"
DataUuid == "DATA"
Uuids == {CfgUuid, NextUuid, DataUuid}

\* Keys of the notification queue: "<config uuid>+<i>" per chunk, and the bare
\* uuid of the configuration-request characteristic.
NextKey == NumChunks
QueueKeys == ChunkKeys \cup {NextKey}

\* The first two bytes of a notification: <<b0, b1>>.
Bytes0 == ChunkKeys
Bytes1 == {0, 1}

\* int.from_bytes(data[:2]) (big endian)
data_header(b0, b1) == b0 * 256 + b1

\* Parameter tables a device may deliver: header -> type.
EmptyTable == [h \in {} |-> 0]
TableA == (1 :> ENGINE_RPM) @@ (257 :> UNKNOWN_3)
TableB == (1 :> OIL_PRESSURE)
Tables == {TableA, TableB}

\* FuturesQueue on its own: keys, promises, the values triggered, and the
\* default value handed to wait_for_data.
FqKeys == 1 .. NumKeys
Promises == 1 .. MaxPromises
FqValues == {"v1", "v2"}
FqDefault == "default"

\* A promise not yet created; state: unused/pending/resolved/cancelled; key: the
\* key it was created for; cbs:
\* callbacks attached and waiting for the promise to be done; sched: callback
\* calls handed to the event loop (call_soon); calls: callback calls made.
NoPromise == [state |-> "unused", value |-> "none", key |-> 0, cbs |-> 0, sched |-> 0, calls |-> 0]
NoWaiter == [state |-> "idle", p |-> 0]
NoCall == [op |-> "none", key |-> 0, p |-> 0, value |-> "none", ret |-> "none",
           raised |-> "none", suspended |-> FALSE]

NoAccept == [outcome |-> "none", ptype |-> 0, connected |-> FALSE, sent |-> 0,
             logged |-> FALSE, raised |-> "none"]
NoDecode == [op |-> "none", ret |-> "none", raised |-> "none", count |-> 0,
             before |-> "None", prev |-> "none"]

\* stopped: the step cancelled a watchdog task that was still sleeping.
\* A number: n / d times 2.77778e-9 to the power f (the fuel-flow factor is kept
\* as a power so that the numbers stay small).
Num(n) == [n |-> n, d |-> 1, f |-> 0]

\* No arguments, and no conversion call made.  formula.given: the formula is not
\* None; ptype: the parameter type asked for; table: the descriptors installed;
\* data: the bytes of a notification; overrides: the ConversionConfig.
NoInput == [formula |-> [given |-> FALSE, tokens |-> <<>>], value |-> Num(0), ptype |-> 0,
            table |-> <<>>, data |-> <<>>, overrides |-> [given |-> FALSE, conversions |-> EmptyTable]]
NoConv == [op |-> "none", raised |-> "none", caught |-> "none", accepted |-> FALSE,
           evaluated |-> FALSE, route |-> "none", ptype |-> 0, header |-> 0, raw |-> Num(0), result |-> Num(0),
           sent |-> 0]

NoEvent == [kind |-> "none", matched |-> FALSE, created |-> 0, raised |-> FALSE,
            stopped |-> FALSE]

\* BleDeviceConnection._set_health / SignalKPublisher.set_health
_set_health(h, value, message) ==
    [h EXCEPT !.bluetooth = value, !.bluetooth_error = message]

set_health(h, value, message) ==
    [h EXCEPT !.signalk = value, !.signalk_error = message]

\* Conversion.conversion_for_parameter_type: the name of the function returned,
\* or the error raised.  The match statement tries its cases in order; a type
\* that reaches the sixth case and is not OIL_PRESSURE makes Python evaluate
\* EngineParameterType.WATER_PRESSURE, which the enumeration does not define.
conversion_for_parameter_type(param) ==
    CASE param = 2 -> "millivolts_to_volts"
      [] param = 1 -> "celsius_to_kelvin"
      [] param = 5 -> "cl_per_hour_to_m3_per_sec"
      [] param = 0 -> "rpm_to_hertz"
      [] param = 4 -> "minutes_to_seconds"
      [] param = 8 -> "convert_pressure_to_pascals"
      [] OTHER -> "AttributeError"

----------------------------------------------------------------------------
\* Scheduling.

BleAtomicPcs == {"loop_top", "scan_returned"}
SkAtomicPcs == {"sk_top"}

\* No task is between two statements of an uninterrupted run.
Yielded ==
    /\ blePc \notin BleAtomicPcs
    /\ bleClosePc # "abort_set"
    /\ skPc \notin SkAtomicPcs

----------------------------------------------------------------------------
\* BleDeviceConnection: helpers.

cancelVars == <<cancelDone, cancelBy, cancelStale, iterated>>
futVars == <<queue, got, poisoned, cfgFut>>
monVars == <<monitor, sleepLeft, watchdogs>>

\* `if not self.__cancel_signal.done(): self.__cancel_signal.set_result(None)`
Resolve(by) ==
    /\ cancelDone' = TRUE
    /\ cancelBy' = IF cancelDone THEN cancelBy ELSE by
    /\ cancelStale' = IF cancelDone THEN cancelStale ELSE FALSE
    /\ iterated' = iterated

\* An exception raised inside `async with BleakClient(...)`: the context manager's
\* exit awaits the disconnect before the exception reaches the except clause.
Raise(e) ==
    /\ blePc' = "disconnecting"
    /\ exc' = e

\* An except clause that catches nothing.
except_catches_nothing(e) == FALSE

\* `except Exception` catches Exception and lets CancelledError (a BaseException) through.
except_catches(e) == e = "Exception"

\* Where run() continues after _device_init_and_loop: back in its loop, or
\* ended by the exception that was not caught.
after_iteration(e) == IF e = "none" \/ except_catches(e) THEN "loop_top" ELSE "crashed"

\* `except Exception as e: self._set_health(False, f"Device error: {e}")`
except_health(h, e) == IF except_catches(e) THEN _set_health(h, "False", "Device error") ELSE h

\* A finally clause that keeps the signal it has.
finally_keeps_signal(done) == done

\* `finally: ... self.__cancel_signal = asyncio.Future()`: done() of the signal afterwards.
finally_cancel_signal(done) == FALSE

\* A finally clause that leaves the watchdog task running.
monitor_task_keep(m, n) == n

\* `if monitor_task: monitor_task.cancel()`: the live watchdog tasks afterwards.
\* The task of this iteration, if it still sleeps, gets CancelledError at its
\* await and runs no further statement.
monitor_task_cancel(m, n) == IF m = "sleeping" THEN n - 1 ELSE n

\* The except and finally clauses of _device_init_and_loop and the return to run().
IterationEnd(e) ==
    /\ health' = except_health(health, e)
    /\ monitor' = "none"
    /\ sleepLeft' = 0
    /\ watchdogs' = monitor_task_cancel(monitor, watchdogs)
    /\ cancelDone' = finally_cancel_signal(cancelDone)
    /\ cancelBy' = IF cancelDone' THEN cancelBy ELSE "none"
    /\ cancelStale' = cancelDone'
    /\ iterated' = TRUE
    /\ exc' = "none"
    /\ blePc' = after_iteration(e)

----------------------------------------------------------------------------
\* BleDeviceConnection.run

\* The task starts: `self.__task_group = task_group`.
BleRun ==
    /\ blePc = "start" /\ Yielded
    /\ blePc' = "loop_top"
    /\ event' = NoEvent
    /\ UNCHANGED <<abort, cancelVars, found, linkUp, exc, k, monVars, streaming_timeout,
                   lastAge, engine_parameters, futVars, subs, tasks, bleClosePc, health, skVars, fqVars, decVars>>

\* `while not self.__abort:` ... `found_device = None` ... `_scan_for_device()` up to
\* the scanner's first await.
BleLoopTop ==
    /\ blePc = "loop_top"
    /\ IF abort
       THEN /\ blePc' = "done"
            /\ UNCHANGED <<health, found>>
       ELSE /\ blePc' = "scanning"
            /\ found' = FALSE
            /\ health' = _set_health(health, "True", "Scanning for device")
    /\ event' = NoEvent
    /\ UNCHANGED <<abort, cancelVars, linkUp, exc, k, monVars, streaming_timeout,
                   lastAge, engine_parameters, futVars, subs, tasks, bleClosePc, skVars, fqVars, decVars>>

\* _scan_for_device: an advertisement matches the configured address or name.
ScanMatch ==
    /\ blePc = "scanning" /\ Yielded
    /\ blePc' = "scan_returned"
    /\ found' = TRUE
    /\ event' = NoEvent
    /\ UNCHANGED <<abort, cancelVars, linkUp, exc, k, monVars, streaming_timeout,
                   lastAge, engine_parameters, futVars, subs, tasks, bleClosePc, health, skVars, fqVars, decVars>>

\* _scan_for_device: the advertisement stream ends, `return None`.
ScanEnds ==
    /\ blePc = "scanning" /\ Yielded
    /\ blePc' = "scan_returned"
    /\ found' = FALSE
    /\ event' = NoEvent
    /\ UNCHANGED <<abort, cancelVars, linkUp, exc, k, monVars, streaming_timeout,
                   lastAge, engine_parameters, futVars, subs, tasks, bleClosePc, health, skVars, fqVars, decVars>>

\* _scan_for_device: the scanner raises (no adapter); nothing in run() catches it.
ScanFails ==
    /\ blePc = "scanning" /\ Yielded
    /\ blePc' = "crashed"
    /\ event' = [NoEvent EXCEPT !.kind = "scan_failure"]
    /\ UNCHANGED <<abort, cancelVars, found, linkUp, exc, k, monVars, streaming_timeout,
                   lastAge, engine_parameters, futVars, subs, tasks, bleClosePc, health, skVars, fqVars, decVars>>

\* What run() does with the scan's result: 0 return (aborted), 1 connect, 2 scan again.
after_scan(ab, fnd) == IF ab THEN "done" ELSE IF fnd THEN "connecting" ELSE "scanning"

\* run(), after `found_device = await self._scan_for_device()`.
BleAfterScan ==
    /\ blePc = "scan_returned"
    /\ blePc' = after_scan(abort, found)
    /\ health' = CASE blePc' = "done" -> _set_health(health, "False", "device discovery scan aborted")
                   [] blePc' = "scanning" -> _set_health(health, "True", "Scanning for device")
                   [] OTHER -> health
    /\ event' = NoEvent
    /\ UNCHANGED <<abort, cancelVars, found, linkUp, exc, k, monVars, streaming_timeout,
                   lastAge, engine_parameters, futVars, subs, tasks, bleClosePc, skVars, fqVars, decVars>>

----------------------------------------------------------------------------
\* BleDeviceConnection._device_init_and_loop and what it calls.

\* What no step of the initialization changes.
initFrame == <<abort, cancelVars, found, monVars, streaming_timeout, lastAge, tasks,
               bleClosePc, skVars, fqVars, decVars>>

HwFailure == [NoEvent EXCEPT !.kind = "hw_failure"]

\* `async with BleakClient(device, ...) as client:` and `_set_health(True, ...)`, then
\* _retrieve_device_info up to its first read.  A failed connect is raised outside
\* the context manager's body: there is nothing to disconnect.
Connect(ok) ==
    /\ blePc = "connecting" /\ Yielded
    /\ IF ok
       THEN /\ linkUp' = TRUE
            /\ health' = _set_health(health, "True", "Connected to device")
            /\ blePc' = "read_info"
            /\ k' = 1
            /\ event' = NoEvent
            /\ UNCHANGED <<cancelVars, exc, monVars>>
       ELSE /\ IterationEnd("Exception")
            /\ event' = HwFailure
            /\ UNCHANGED <<linkUp, k>>
    /\ UNCHANGED <<abort, found, streaming_timeout, lastAge, engine_parameters, futVars, subs,
                   tasks, bleClosePc, skVars, fqVars, decVars>>

\* _read_char: the value read, or None when the device is not connected or does
\* not have the characteristic (BleakCharacteristicNotFoundError is caught).
_read_char(connected, has_char) == IF connected /\ has_char THEN "value" ELSE "None"

\* _retrieve_device_info: `"".join([chr(c) for c in <result>])` iterates the result;
\* None is not iterable (TypeError).
info_read_raises(result) == result = "None"

\* One of the four reads of _retrieve_device_info (model number, device name,
\* manufacturer name, firmware revision), and the logging of its result.
ReadInfo(has_char, ok) ==
    /\ blePc = "read_info" /\ Yielded
    /\ ok => linkUp
    /\ IF ~ok
       THEN \* read_gatt_char raises another error
            /\ Raise("Exception")
            /\ event' = HwFailure
            /\ k' = 0
       ELSE IF info_read_raises(_read_char(linkUp, has_char))
       THEN /\ Raise("Exception")
            /\ event' = [NoEvent EXCEPT !.kind = "info_unavailable"]
            /\ k' = 0
       ELSE /\ event' = NoEvent
            /\ exc' = exc
            /\ IF k < 4
               THEN k' = k + 1 /\ blePc' = blePc
               ELSE k' = 0 /\ blePc' = "disable_streaming"
    /\ UNCHANGED <<initFrame, linkUp, engine_parameters, futVars, subs, health>>

\* _initalize_vvm: `await self._set_streaming_mode(client, enabled=False)`
DisableStreaming(ok) ==
    /\ blePc = "disable_streaming" /\ Yielded
    /\ ok => linkUp
    /\ IF ok
       THEN blePc' = "param_notify" /\ exc' = exc /\ event' = NoEvent
       ELSE Raise("Exception") /\ event' = HwFailure
    /\ UNCHANGED <<initFrame, linkUp, k, engine_parameters, futVars, subs, health>>

\* FuturesQueue.register over the keys of the request: an entry already in the
\* map is returned as it is (pending, or cancelled by an earlier timeout).
register(q, keys) == [key \in DOMAIN q |-> IF key \in keys /\ q[key] = "absent" THEN "pending" ELSE q[key]]

\* _request_device_parameter_config: start_notify on the configuration
\* characteristic, then the ten future_data_for_uuid(uuid, key) registrations.
ParamNotify(ok) ==
    /\ blePc = "param_notify" /\ Yielded
    /\ ok => linkUp
    /\ IF ok
       THEN /\ blePc' = "param_write"
            /\ subs' = subs \cup {CfgUuid}
            /\ queue' = register(queue, ChunkKeys)
            /\ poisoned' = (\E i \in ChunkKeys : queue[i] = "cancelled")
            /\ got' = {}
            /\ exc' = exc
            /\ event' = NoEvent
       ELSE /\ Raise("Exception")
            /\ event' = HwFailure
            /\ UNCHANGED <<subs, queue, poisoned, got>>
    /\ UNCHANGED <<initFrame, linkUp, k, engine_parameters, cfgFut, health>>

\* The dispatch map after the parameter request timed out: _initalize_vvm only
\* logs a warning, update_engine_params is not called.
params_after_timeout(params) == params

\* Leaving _request_device_parameter_config by its timeout.
ParamTimedOut ==
    /\ blePc' = "cfg_notify"
    /\ k' = 1
    /\ got' = {}
    /\ poisoned' = FALSE
    /\ engine_parameters' = params_after_timeout(engine_parameters)
    /\ event' = [NoEvent EXCEPT !.kind = "param_timeout"]
    /\ exc' = exc

\* _request_device_parameter_config: the write of the request command, inside
\* `async with asyncio.timeout(BLE_TIMEOUT)`.  A timeout here ends the write; the
\* gather does not exist yet, so the registered futures stay pending.
ParamWrite(outcome) ==
    /\ blePc = "param_write" /\ Yielded
    /\ outcome = "ok" => linkUp
    /\ CASE outcome = "ok" ->
              /\ blePc' = "param_gather"
              /\ event' = NoEvent
              /\ UNCHANGED <<exc, k, got, poisoned, queue, engine_parameters>>
         [] outcome = "fail" ->
              /\ Raise("Exception")
              /\ event' = HwFailure
              /\ got' = {}
              /\ poisoned' = FALSE
              /\ UNCHANGED <<k, queue, engine_parameters>>
         [] outcome = "timeout" ->
              /\ ParamTimedOut
              /\ UNCHANGED queue
    /\ UNCHANGED <<initFrame, linkUp, cfgFut, subs, health>>

\* asyncio.gather over a future that is already cancelled fails with
\* CancelledError, which neither `except TimeoutError` nor `except Exception` catches.
ParamGatherCancelled ==
    /\ blePc = "param_gather" /\ Yielded
    /\ poisoned
    /\ Raise("CancelledError")
    /\ got' = {}
    /\ poisoned' = FALSE
    /\ event' = NoEvent
    /\ UNCHANGED <<initFrame, linkUp, k, engine_parameters, queue, cfgFut, subs, health>>

\* The timeout cancels the gather, and the gather cancels its pending futures,
\* which stay in the queue.
cancel_pending(q, keys) == [key \in DOMAIN q |-> IF key \in keys /\ q[key] = "pending" THEN "cancelled" ELSE q[key]]

\* _request_device_parameter_config: the BLE_TIMEOUT expires while the gather waits.
ParamGatherTimeout ==
    /\ blePc = "param_gather" /\ Yielded
    /\ ~poisoned
    /\ got # ChunkKeys
    /\ ParamTimedOut
    /\ queue' = cancel_pending(queue, ChunkKeys)
    /\ UNCHANGED <<initFrame, linkUp, cfgFut, subs, health>>

\* update_engine_params: the dispatch map is replaced by the new table.
update_engine_params(params, table) == table

\* _request_device_parameter_config: all chunks arrived; ConfigDecoder parses them
\* into a table or raises ValueError; _initalize_vvm installs the table.
ParamGatherDone(table, valid) ==
    /\ blePc = "param_gather" /\ Yielded
    /\ ~poisoned
    /\ got = ChunkKeys
    /\ got' = {}
    /\ IF valid
       THEN /\ engine_parameters' = update_engine_params(engine_parameters, table)
            /\ blePc' = "cfg_notify"
            /\ k' = 1
            /\ exc' = exc
       ELSE /\ Raise("Exception")
            /\ UNCHANGED <<engine_parameters, k>>
    /\ event' = NoEvent
    /\ UNCHANGED <<initFrame, linkUp, queue, poisoned, cfgFut, subs, health>>

\* _request_configuration_data: start_notify, then future_data_for_uuid(uuid).
CfgNotify(ok) ==
    /\ blePc = "cfg_notify" /\ Yielded
    /\ ok => linkUp
    /\ IF ok
       THEN /\ blePc' = "cfg_write"
            /\ subs' = subs \cup {NextUuid}
            /\ queue' = register(queue, {NextKey})
            /\ cfgFut' = IF queue[NextKey] = "cancelled" THEN "cancelled" ELSE "pending"
            /\ UNCHANGED <<exc, k>>
            /\ event' = NoEvent
       ELSE /\ Raise("Exception")
            /\ k' = 0
            /\ event' = HwFailure
            /\ UNCHANGED <<subs, queue, cfgFut>>
    /\ UNCHANGED <<initFrame, linkUp, engine_parameters, got, poisoned, health>>

\* _request_configuration_data: the write; it is outside the try block, so a
\* failure leaves the notification started and the future registered.
CfgWrite(ok) ==
    /\ blePc = "cfg_write" /\ Yielded
    /\ ok => linkUp
    /\ IF ok
       THEN /\ blePc' = "cfg_wait"
            /\ UNCHANGED <<exc, k, cfgFut>>
            /\ event' = NoEvent
       ELSE /\ Raise("Exception")
            /\ k' = 0
            /\ cfgFut' = "none"
            /\ event' = HwFailure
    /\ UNCHANGED <<initFrame, linkUp, engine_parameters, queue, got, poisoned, subs, health>>

\* What `result = await future_data_result` and the uses of the result raise:
\* a cancelled future raises CancelledError; an int (the decoded value the
\* matched-header branch of the handler passes on) has no hex(); bytes are fine.
cfg_result_raises(fut) ==
    CASE fut = "cancelled" -> "CancelledError"
      [] fut = "int" -> "Exception"
      [] OTHER -> "none"

\* _request_configuration_data: the awaited future is done; on to `finally: stop_notify`.
CfgWaitDone ==
    /\ blePc = "cfg_wait" /\ Yielded
    /\ cfgFut \in {"raw", "int", "cancelled"}
    /\ blePc' = "cfg_stop"
    /\ exc' = cfg_result_raises(cfgFut)
    /\ cfgFut' = "none"
    /\ event' = NoEvent
    /\ UNCHANGED <<initFrame, linkUp, k, engine_parameters, queue, got, poisoned, subs, health>>

\* _request_configuration_data: the BLE_TIMEOUT expires; the awaited future is
\* cancelled and stays in the queue; the function returns None, and the caller's
\* result.hex() raises AttributeError once stop_notify has run.
CfgWaitTimeout ==
    /\ blePc = "cfg_wait" /\ Yielded
    /\ cfgFut = "pending"
    /\ blePc' = "cfg_stop"
    /\ queue' = cancel_pending(queue, {NextKey})
    /\ exc' = "Exception"
    /\ cfgFut' = "none"
    /\ event' = [NoEvent EXCEPT !.kind = "cfg_timeout"]
    /\ UNCHANGED <<initFrame, linkUp, k, engine_parameters, got, poisoned, subs, health>>

\* _request_configuration_data: `finally: await client.stop_notify(uuid)`, then the
\* caller's comparison of the result (a mismatch is only logged), then the next
\* of the three requests or _setup_data_notifications.
CfgStop(ok) ==
    /\ blePc = "cfg_stop" /\ Yielded
    /\ ok => linkUp
    /\ IF ~ok
       THEN /\ Raise("Exception")
            /\ k' = 0
            /\ event' = HwFailure
            /\ UNCHANGED subs
       ELSE /\ subs' = subs \ {NextUuid}
            /\ event' = NoEvent
            /\ IF exc # "none"
               THEN Raise(exc) /\ k' = 0
               ELSE /\ exc' = exc
                    /\ IF k < 3
                       THEN k' = k + 1 /\ blePc' = "cfg_notify"
                       ELSE k' = 0 /\ blePc' = "setup_notifications"
    /\ UNCHANGED <<initFrame, linkUp, engine_parameters, futVars, health>>

\* _setup_data_notifications: start_notify on every characteristic that notifies;
\* a failure to subscribe is caught and logged.
SetupNotifications ==
    /\ blePc = "setup_notifications" /\ Yielded
    /\ blePc' = "enable_streaming"
    /\ subs' = IF linkUp THEN subs \cup {DataUuid} ELSE subs
    /\ event' = NoEvent
    /\ UNCHANGED <<initFrame, linkUp, exc, k, engine_parameters, futVars, health>>

\* `if self.__config.streaming_timeout > 0: monitor_task = create_task(...)`.  The
\* new task runs `while not self.__abort:` up to its sleep before anything else can
\* change abort.
start_monitor(timeout, ab) == IF timeout > 0 THEN (IF ab THEN "finished" ELSE "sleeping") ELSE "none"

\* `await self._set_streaming_mode(client, enabled=True)`, the start of the
\* watchdog and `await self.__cancel_signal` (which does not suspend when the
\* signal is already resolved).
EnableStreaming(ok) ==
    /\ blePc = "enable_streaming" /\ Yielded
    /\ ok => linkUp
    /\ IF ok
       THEN /\ monitor' = start_monitor(streaming_timeout, abort)
            /\ sleepLeft' = IF monitor' = "sleeping" THEN streaming_timeout ELSE 0
            /\ watchdogs' = IF monitor' = "sleeping" THEN watchdogs + 1 ELSE watchdogs
            /\ blePc' = IF cancelDone THEN "disconnecting" ELSE "streaming"
            /\ exc' = exc
            /\ event' = NoEvent
       ELSE /\ Raise("Exception")
            /\ event' = HwFailure
            /\ UNCHANGED monVars
    /\ UNCHANGED <<abort, cancelVars, found, streaming_timeout, lastAge, tasks, bleClosePc,
                   skVars, fqVars, decVars, linkUp, k, engine_parameters, futVars, subs, health>>

\* `await self.__cancel_signal` returns; the context manager's exit disconnects.
StreamingWake ==
    /\ blePc = "streaming" /\ Yielded
    /\ cancelDone
    /\ blePc' = "disconnecting"
    /\ event' = [NoEvent EXCEPT !.kind = "cancel_consumed"]
    /\ UNCHANGED <<initFrame, linkUp, exc, k, engine_parameters, futVars, subs, health>>

\* The disconnect has completed: except clause, finally clause, back to run().
Disconnected ==
    /\ blePc = "disconnecting" /\ Yielded
    /\ ~linkUp
    /\ IterationEnd(exc)
    /\ event' = [NoEvent EXCEPT !.kind = IF exc = "none" THEN "iteration_ended" ELSE "iteration_failed",
                                !.stopped = (monitor = "sleeping")]
    /\ UNCHANGED <<abort, found, linkUp, k, streaming_timeout, lastAge, engine_parameters,
                   futVars, subs, tasks, bleClosePc, skVars, fqVars, decVars>>

\* device_disconnected: the transport's disconnected callback, when the link is
\* lost or when the context manager's exit disconnects.
device_disconnected ==
    /\ linkUp /\ Yielded
    /\ linkUp' = FALSE
    /\ subs' = {}
    /\ health' = _set_health(health, "False", "BLE device disconnected")
    /\ Resolve("disconnect")
    /\ event' = NoEvent
    /\ UNCHANGED <<blePc, abort, found, exc, k, monVars, streaming_timeout, lastAge,
                   engine_parameters, futVars, tasks, bleClosePc, skVars, fqVars, decVars>>

----------------------------------------------------------------------------
\* The streaming watchdog and time.

\* A watchdog that allows one more unit of silence.
watchdog_fires_late(age, timeout) == age # -1 /\ age > timeout + 1

\* `if self.__last_message_time is None: continue` and
\* `if (loop.time() - self.__last_message_time) > self.__config.streaming_timeout:`
watchdog_fires(age, timeout) == age # -1 /\ age > timeout

\* _monitor_streaming: the sleep is over; the check, then either the break or
\* the next `while not self.__abort:` and the next sleep.
MonitorWake ==
    /\ monitor = "sleeping" /\ sleepLeft = 0 /\ Yielded
    /\ IF watchdog_fires(lastAge, streaming_timeout)
       THEN /\ health' = _set_health(health, "False", "Streaming data timed out")
            /\ Resolve("watchdog")
            /\ monitor' = "finished"
            /\ sleepLeft' = 0
            /\ watchdogs' = watchdogs - 1
            /\ event' = [NoEvent EXCEPT !.kind = "watchdog_fired"]
       ELSE /\ monitor' = IF abort THEN "finished" ELSE "sleeping"
            /\ sleepLeft' = IF abort THEN 0 ELSE streaming_timeout
            /\ watchdogs' = IF abort THEN watchdogs - 1 ELSE watchdogs
            /\ event' = [NoEvent EXCEPT !.kind = "watchdog_passed"]
            /\ UNCHANGED <<health, cancelVars>>
    /\ UNCHANGED <<blePc, abort, found, linkUp, exc, k, streaming_timeout, lastAge,
                   engine_parameters, futVars, subs, tasks, bleClosePc, skVars, fqVars, decVars>>

\* The age of the last message is compared with streaming_timeout only: it is
\* counted up to the first value above it (and not at all without a watchdog).
age_cap(timeout) == IF timeout > 0 THEN timeout + 1 ELSE 0

\* One unit of time passes; a sleep that is over is served before more time passes.
Tick ==
    /\ Yielded
    /\ monitor = "sleeping" => sleepLeft > 0
    /\ lastAge' = IF lastAge = -1 \/ lastAge >= age_cap(streaming_timeout) THEN lastAge ELSE lastAge + 1
    /\ sleepLeft' = IF monitor = "sleeping" THEN sleepLeft - 1 ELSE sleepLeft
    /\ <<lastAge', sleepLeft'>> # <<lastAge, sleepLeft>>
    /\ event' = NoEvent
    /\ UNCHANGED <<blePc, abort, cancelVars, found, linkUp, exc, k, monitor, watchdogs,
                   streaming_timeout, engine_parameters, futVars, subs, tasks, bleClosePc,
                   health, skVars, fqVars, decVars>>

----------------------------------------------------------------------------
\* BleDeviceConnection.close: two statements of one uninterrupted run.

\* A close() that leaves the abort flag as it is.
close_keeps_abort(ab) == ab

\* `self.__abort = True`
close_set_abort(ab) == TRUE

\* close(), first statement.
BleCloseStart ==
    /\ bleClosePc = "idle" /\ Yielded
    /\ abort' = close_set_abort(abort)
    /\ bleClosePc' = "abort_set"
    /\ event' = NoEvent
    /\ UNCHANGED <<blePc, cancelVars, found, linkUp, exc, k, monVars, streaming_timeout,
                   lastAge, engine_parameters, futVars, subs, tasks, health, skVars, fqVars, decVars>>

\* close(), the rest: resolve the cancellation signal, `_set_health(False, "shutting down")`.
BleCloseFinish ==
    /\ bleClosePc = "abort_set"
    /\ Resolve("close")
    /\ health' = _set_health(health, "False", "shutting down")
    /\ bleClosePc' = "done"
    /\ event' = NoEvent
    /\ UNCHANGED <<blePc, abort, found, linkUp, exc, k, monVars, streaming_timeout,
                   lastAge, engine_parameters, futVars, subs, tasks, skVars, fqVars, decVars>>

----------------------------------------------------------------------------
\* notification_handler and the telemetry dispatch.

\* The queue key a bare characteristic uuid stands for (only the configuration-
\* request characteristic is ever registered under its bare uuid); -1: none.
uuid_key(u) == IF u = NextUuid THEN NextKey ELSE -1

\* The queue key "<uuid>+<data[0]>"; only the chunk keys are ever registered.
chunk_key(u, b0) == IF u = CfgUuid /\ b0 \in ChunkKeys THEN b0 ELSE -1

\* FuturesQueue.trigger: the entry is popped; set_result on a cancelled future
\* raises InvalidStateError.
trigger_pops(q, key) == IF key \in DOMAIN q THEN [q EXCEPT ![key] = "absent"] ELSE q
trigger_raises(q, key) == key \in DOMAIN q /\ q[key] = "cancelled"
trigger_resolves(q, key) == key \in DOMAIN q /\ q[key] = "pending"

\* _publish_data: one create_task per receiver, none awaited.
_publish_data(t) == [r \in DOMAIN t |-> t[r] + 1]

\* notification_handler(characteristic, data), data starting with bytes b0 b1.
notification_handler(u, b0, b1) ==
    LET hdr == data_header(b0, b1)
        matched == hdr \in DOMAIN engine_parameters
        ukey == uuid_key(u)
        raised1 == trigger_raises(queue, ukey)
        q1 == trigger_pops(queue, ukey)
        ckey == chunk_key(u, b0)
        convert == IF matched THEN conversion_for_parameter_type(engine_parameters[hdr]) ELSE "none"
        dispatched == matched /\ ~raised1 /\ convert # "AttributeError"
    IN
    /\ linkUp /\ u \in subs /\ Yielded
    /\ dispatched => \A r \in DOMAIN tasks : tasks[r] < MaxPending
    /\ lastAge' = 0
    /\ cfgFut' = IF trigger_resolves(queue, ukey) /\ blePc \in {"cfg_write", "cfg_wait"}
                 THEN (IF matched THEN "int" ELSE "raw")
                 ELSE cfgFut
    /\ IF matched
       THEN \* _trigger_event_listener(uuid, decoded_value, False); _convert_and_publish_data
            /\ queue' = q1
            /\ got' = got
            /\ tasks' = IF dispatched THEN _publish_data(tasks) ELSE tasks
            /\ event' = [kind |-> "notification", matched |-> TRUE,
                         created |-> IF dispatched THEN Cardinality(DOMAIN tasks) ELSE 0,
                         raised |-> ~dispatched, stopped |-> FALSE]
       ELSE \* _trigger_event_listener(uuid, data, True)
            /\ queue' = IF raised1 THEN q1 ELSE trigger_pops(q1, ckey)
            /\ got' = IF ~raised1 /\ trigger_resolves(q1, ckey) /\ blePc \in {"param_write", "param_gather"}
                      THEN got \cup {ckey}
                      ELSE got
            /\ tasks' = tasks
            /\ event' = [kind |-> "notification", matched |-> FALSE, created |-> 0,
                         raised |-> raised1, stopped |-> FALSE]
    /\ UNCHANGED <<blePc, abort, cancelVars, found, linkUp, exc, k, monVars,
                   streaming_timeout, engine_parameters, poisoned, subs, bleClosePc, health,
                   skVars, fqVars, decVars>>

\* A receiver's accept_engine_data task completes.
ReceiverCompletes(r) ==
    /\ Yielded
    /\ r \in DOMAIN tasks
    /\ tasks[r] > 0
    /\ tasks' = [tasks EXCEPT ![r] = @ - 1]
    /\ event' = NoEvent
    /\ UNCHANGED <<blePc, abort, cancelVars, found, linkUp, exc, k, monVars,
                   streaming_timeout, lastAge, engine_parameters, futVars, subs, bleClosePc,
                   health, skVars, fqVars, decVars>>

----------------------------------------------------------------------------
\* The device session on its own.

\* The state after construction, with the receivers registered by
\* accept_data_receiver and the configured streaming timeout.
InitBle(receivers, timeouts) ==
    /\ blePc = "start"
    /\ abort = FALSE
    /\ cancelDone = FALSE /\ cancelBy = "none" /\ cancelStale = FALSE
    /\ iterated = FALSE
    /\ found = FALSE
    /\ linkUp = FALSE
    /\ exc = "none"
    /\ k = 0
    /\ monitor = "none" /\ sleepLeft = 0 /\ watchdogs = 0
    /\ streaming_timeout \in timeouts
    /\ lastAge = -1
    /\ engine_parameters = EmptyTable
    /\ queue = [key \in QueueKeys |-> "absent"]
    /\ got = {} /\ poisoned = FALSE /\ cfgFut = "none"
    /\ subs = {}
    /\ tasks = [r \in receivers |-> 0]
    /\ bleClosePc = "idle"

InitSk ==
    /\ skPc = "sk_start"
    /\ skAbort = FALSE
    /\ socket_connected = FALSE
    /\ wsOpen = FALSE
    /\ username \in BOOLEAN
    /\ login = "absent"
    /\ auth_token = FALSE
    /\ skClosePc = "idle"

\* SignalKConfig.retry_interval, and a publisher that has not slept yet.
InitRetry(intervals) ==
    /\ retry_interval \in intervals
    /\ skSleep = 0
    /\ skSlept = 0

\* SignalKConfig.send_unknown_parameters, and a publisher that has accepted nothing.
InitAccept(unknowns) ==
    /\ send_unknown \in unknowns
    /\ should_log = TRUE
    /\ accPc = "idle"
    /\ accEvent = NoAccept
    /\ dropsSince = 0
    /\ logsSince = 0

\* ConfigDecoder.__init__
InitDec ==
    /\ known_data = <<>>
    /\ has_all_data = "None"
    /\ parameters = <<>>
    /\ decEvent = NoDecode

\* No conversion was asked for and no reading is on its way.
InitCv ==
    /\ cvIn = NoInput
    /\ cvOut = NoConv
    /\ delivered = <<>>

\* FuturesQueue.__init__: `self.__queue = {}`; no promise exists, nobody waits.
InitFq ==
    /\ fq = [key \in FqKeys |-> 0]
    /\ prom = [p \in Promises |-> NoPromise]
    /\ nextP = 1
    /\ waiter = NoWaiter
    /\ fqEvent = NoCall

InitHealth ==
    /\ health = [bluetooth |-> "False", bluetooth_error |-> "None",
                 signalk |-> "False", signalk_error |-> "None"]
    /\ event = NoEvent

Init == InitBle({}, {0, MaxStreamingTimeout}) /\ InitSk /\ InitRetry({1}) /\ InitAccept({FALSE}) /\ InitDec /\ InitCv /\ InitFq /\ InitHealth

InitDispatch == InitBle(Receivers, {0}) /\ InitSk /\ InitRetry({1}) /\ InitAccept({FALSE}) /\ InitDec /\ InitCv /\ InitFq /\ InitHealth

\* The publisher with each retry interval a configuration can give it.
InitPublisher ==
    InitBle({}, {0}) /\ InitSk /\ InitRetry(1 .. MaxRetryInterval) /\ InitAccept({FALSE}) /\ InitDec /\ InitCv /\ InitFq /\ InitHealth

\* The steps of the session, of the transport and of close().
NextSession ==
    \/ BleRun \/ BleLoopTop \/ ScanMatch \/ ScanEnds \/ ScanFails \/ BleAfterScan
    \/ \E ok \in BOOLEAN : Connect(ok)
    \/ \E has_char \in BOOLEAN, ok \in BOOLEAN : ReadInfo(has_char, ok)
    \/ \E ok \in BOOLEAN : DisableStreaming(ok)
    \/ \E ok \in BOOLEAN : ParamNotify(ok)
    \/ \E outcome \in {"ok", "fail", "timeout"} : ParamWrite(outcome)
    \/ ParamGatherCancelled \/ ParamGatherTimeout
    \/ \E table \in Tables, valid \in BOOLEAN : ParamGatherDone(table, valid)
    \/ \E ok \in BOOLEAN : CfgNotify(ok)
    \/ \E ok \in BOOLEAN : CfgWrite(ok)
    \/ CfgWaitDone \/ CfgWaitTimeout
    \/ \E ok \in BOOLEAN : CfgStop(ok)
    \/ SetupNotifications
    \/ \E ok \in BOOLEAN : EnableStreaming(ok)
    \/ StreamingWake \/ Disconnected \/ device_disconnected
    \/ BleCloseStart \/ BleCloseFinish
    \/ \E u \in Uuids, b0 \in Bytes0, b1 \in Bytes1 : notification_handler(u, b0, b1)

\* The session with its watchdog and the passing of time, no receiver registered.
NextBle == NextSession \/ MonitorWake \/ Tick

SpecBle == Init /\ [][NextBle]_vars

\* The steps asyncio takes by itself once they are enabled: a task that is ready
\* runs.  Advertisements, notifications, the outcomes and the timing of the
\* hardware operations and the call of close() are the environment's.
Scheduled ==
    \/ BleRun \/ BleLoopTop \/ BleAfterScan \/ BleCloseFinish
    \/ StreamingWake \/ Disconnected \/ MonitorWake
    \/ (blePc = "disconnecting" /\ device_disconnected)

FairBle == SpecBle /\ WF_vars(Scheduled)

\* The session with receivers registered and no watchdog configured.
NextDispatch == NextSession \/ \E r \in Receivers : ReceiverCompletes(r)

SpecDispatch == InitDispatch /\ [][NextDispatch]_vars

----------------------------------------------------------------------------
\* SignalKPublisher

skFrame == <<bleVars, fqVars, decVars, accVars>>

\* connect_websocket: the health message of each failure the function catches.
connect_failure_message(outcome) ==
    CASE outcome = "TimeoutError" -> "Websocket connection timed out."
      [] outcome = "OSError" -> "Connection failed"
      [] outcome = "InvalidURI" -> "Invalid URI"
      [] outcome = "InvalidHandshake" -> "Websocket service error"

ConnectOutcomes == {"ok", "TimeoutError", "OSError", "InvalidURI", "InvalidHandshake"}

\* The task starts: `self.__task_group = task_group`.
SkRun ==
    /\ skPc = "sk_start" /\ Yielded
    /\ skPc' = "sk_top"
    /\ event' = NoEvent
    /\ UNCHANGED <<skAbort, socket_connected, wsOpen, username, login, auth_token, skClosePc,
                   health, retryVars, skFrame>>

\* `while not self.__abort:` and connect_websocket up to `await websockets.connect(...)`.
SkTop ==
    /\ skPc = "sk_top"
    /\ skPc' = IF skAbort THEN "sk_done" ELSE "sk_connecting"
    /\ event' = NoEvent
    /\ UNCHANGED <<skAbort, socket_connected, wsOpen, username, login, auth_token, skClosePc,
                   health, retryVars, skFrame>>

\* run() after a successful connect: authenticate (register_callback, then the
\* send) when a username is configured, else the receive loop.
after_connect(user) == IF user THEN "sk_auth_send" ELSE "sk_recv"

\* A retry loop that sleeps a second longer than configured.
retry_delay_longer(interval) == interval + 1

\* run(): `await asyncio.sleep(self.retry_interval_seconds)`, the length of the sleep.
retry_delay(interval) == interval

\* connect_websocket returns, and run() goes on: to the retry sleep, to
\* authenticate, or to the receive loop.
SkConnect(outcome) ==
    /\ skPc = "sk_connecting" /\ Yielded
    /\ IF outcome = "ok"
       THEN /\ wsOpen' = TRUE
            /\ health' = set_health(health, "True", "None")
            /\ socket_connected' = TRUE
            /\ skPc' = after_connect(username)
            /\ login' = IF username THEN "pending" ELSE login
            /\ skSleep' = 0
            /\ event' = NoEvent
       ELSE /\ health' = set_health(health, "False", connect_failure_message(outcome))
            /\ socket_connected' = FALSE
            /\ skPc' = "sk_sleep"
            /\ skSleep' = retry_delay(retry_interval)
            /\ event' = [NoEvent EXCEPT !.kind = "connect_failed"]
            /\ UNCHANGED <<wsOpen, login>>
    /\ skSlept' = 0
    /\ UNCHANGED <<skAbort, username, auth_token, skClosePc, retry_interval, skFrame>>

\* A second of `await asyncio.sleep(self.retry_interval_seconds)` passes.
SkSleepTick ==
    /\ skPc = "sk_sleep" /\ Yielded
    /\ skSleep > 0
    /\ skSleep' = skSleep - 1
    /\ skSlept' = skSlept + 1
    /\ event' = NoEvent
    /\ UNCHANGED <<skPc, skAbort, socket_connected, wsOpen, username, login, auth_token,
                   skClosePc, retry_interval, health, skFrame>>

\* `await asyncio.sleep(self.retry_interval_seconds)` is over; connect_websocket again.
SkSleepDone ==
    /\ skPc = "sk_sleep" /\ Yielded
    /\ skSleep = 0
    /\ skPc' = "sk_connecting"
    /\ event' = [NoEvent EXCEPT !.kind = "retry"]
    /\ UNCHANGED <<skAbort, socket_connected, wsOpen, username, login, auth_token, skClosePc,
                   health, retryVars, skFrame>>

\* The peer or the network closes the connection.
PeerCloses ==
    /\ wsOpen /\ Yielded
    /\ wsOpen' = FALSE
    /\ event' = NoEvent
    /\ UNCHANGED <<skPc, skAbort, socket_connected, username, login, auth_token, skClosePc,
                   health, retryVars, skFrame>>

\* A receive loop that goes on reading whatever the connection flag says.
receive_loop_stays(connected) == "sk_recv"

\* Where run() is after a statement of its receive loop: `while self.socket_connected:`
\* and, when that is over, `while not self.__abort:` at sk_top.
receive_loop(connected) == IF connected THEN "sk_recv" ELSE "sk_top"

\* authenticate: `await self.__websocket.send(json.dumps(data))`.  Nothing in
\* authenticate or run() catches the ConnectionClosed a closed connection raises.
SkAuthSend ==
    /\ skPc = "sk_auth_send" /\ Yielded
    /\ skPc' = IF wsOpen THEN receive_loop(socket_connected) ELSE "sk_crashed"
    /\ event' = [NoEvent EXCEPT !.kind = IF wsOpen THEN "none" ELSE "send_on_closed"]
    /\ UNCHANGED <<skAbort, socket_connected, wsOpen, username, login, auth_token, skClosePc,
                   health, retryVars, skFrame>>

\* The inbound messages told apart by what process_websocket_message does with them.
Messages == {"login_ok", "login_failed", "object_without_id", "object_other_id",
             "json_list", "json_number", "not_json"}

\* process_websocket_message: json.loads raises on text that is not JSON, and
\* `"requestId" in data` raises TypeError on a number.
message_raises(msg) == msg \in {"json_number", "not_json"}

\* `msg = await self.__websocket.recv()` returns a message.
SkRecvMessage(msg) ==
    /\ skPc = "sk_recv" /\ Yielded
    /\ wsOpen
    /\ IF message_raises(msg)
       THEN /\ skPc' = "sk_crashed"
            /\ login' = login
       ELSE /\ skPc' = receive_loop(socket_connected)
            /\ login' = IF msg \in {"login_ok", "login_failed"} /\ login = "pending"
                        THEN msg
                        ELSE login
    /\ event' = [NoEvent EXCEPT !.kind = "message"]
    /\ UNCHANGED <<skAbort, socket_connected, wsOpen, username, auth_token, skClosePc,
                   health, retryVars, skFrame>>

\* recv() raises ConnectionClosedOK or ConnectionClosedError: caught in run().
SkRecvClosed ==
    /\ skPc = "sk_recv" /\ Yielded
    /\ ~wsOpen
    /\ health' = set_health(health, "False", "websocket connection was closed")
    /\ socket_connected' = FALSE
    /\ skPc' = receive_loop(socket_connected')
    /\ event' = [NoEvent EXCEPT !.kind = "recv_closed"]
    /\ UNCHANGED <<skAbort, wsOpen, username, login, auth_token, skClosePc, retryVars, skFrame>>

\* A callback that takes the token of any login response.
login_stores_any(response) == TRUE

\* process_login: `if response_json.get("statusCode") == 200:`.
login_stores_token(response) == response = "login_ok"

\* process_login, the done-callback of the login future.
process_login ==
    /\ login \in {"login_ok", "login_failed"} /\ Yielded
    /\ auth_token' = IF login_stores_token(login) THEN TRUE ELSE auth_token
    /\ login' = "absent"
    /\ event' = [NoEvent EXCEPT !.kind = login]
    /\ UNCHANGED <<skPc, skAbort, socket_connected, wsOpen, username, skClosePc, health, retryVars, skFrame>>

\* close(): `if self.socket_connected:` guards everything it does.
close_sets_abort(connected) == connected

\* SignalKPublisher.close up to `await self.__websocket.close()`.
SkCloseStart ==
    /\ skClosePc = "idle" /\ Yielded
    /\ IF close_sets_abort(socket_connected)
       THEN /\ skAbort' = TRUE
            /\ wsOpen' = FALSE
            /\ skClosePc' = "closing"
       ELSE /\ skClosePc' = "done"
            /\ UNCHANGED <<skAbort, wsOpen>>
    /\ event' = NoEvent
    /\ UNCHANGED <<skPc, socket_connected, username, login, auth_token, health, retryVars, skFrame>>

\* SignalKPublisher.close after the websocket has closed.
SkCloseFinish ==
    /\ skClosePc = "closing" /\ Yielded
    /\ health' = set_health(health, "False", "websocket closed")
    /\ socket_connected' = FALSE
    /\ skClosePc' = "done"
    /\ event' = NoEvent
    /\ UNCHANGED <<skPc, skAbort, wsOpen, username, login, auth_token, retryVars, skFrame>>

NextSk ==
    \/ SkRun \/ SkTop
    \/ \E outcome \in ConnectOutcomes : SkConnect(outcome)
    \/ SkSleepTick \/ SkSleepDone \/ PeerCloses \/ SkAuthSend
    \/ \E msg \in Messages : SkRecvMessage(msg)
    \/ SkRecvClosed \/ process_login
    \/ SkCloseStart \/ SkCloseFinish

SpecSk == InitPublisher /\ [][NextSk]_vars

\* The steps run() takes by itself once what it awaits is ready.
SkLoop ==
    \/ SkTop \/ SkSleepTick \/ SkSleepDone \/ SkAuthSend \/ SkRecvClosed
    \/ \E outcome \in ConnectOutcomes : SkConnect(outcome)

\* The event loop runs a task that is ready, and the server is reachable again:
\* of the connection attempts that go on being made, one succeeds.
FairSk == SpecSk /\ WF_vars(SkLoop) /\ SF_vars(SkConnect("ok"))

----------------------------------------------------------------------------
\* SignalKPublisher.accept_engine_data

\* The parameter types handed to the publisher.
ParamTypes == {ENGINE_RPM, UNKNOWN_3, OIL_PRESSURE}

\* EngineParameter.is_unknown: every type but the six the match statement names.
is_unknown(ptype) == ptype \notin {0, 2, 1, 5, 4, 8}

\* accept_engine_data: `if not self.__config.send_unknown_parameters and param.is_unknown(): return`.
accept_skips(unknowns, ptype) == ~unknowns /\ is_unknown(ptype)

\* convert_value: conversion_for_parameter_type is called before anything is sent.
convert_value_raises(ptype) == conversion_for_parameter_type(ptype) = "AttributeError"

\* A publisher that logs every drop.
log_drop_always(flag) == TRUE

\* accept_engine_data: `elif self.__should_log_connection_down:` guards the log line.
log_drop(flag) == flag

acceptFrame == <<skPc, skAbort, socket_connected, wsOpen, username, login, auth_token, skClosePc,
                 retryVars, send_unknown, health, bleVars, fqVars, known_data, has_all_data,
                 parameters, decEvent>>
sendFrame == <<acceptFrame, cvVars>>

\* accept_engine_data(param, value) up to its return or to `await self.__websocket.send(...)`.
accept_engine_data(ptype) ==
    /\ accPc = "idle" /\ Yielded
    /\ IF accept_skips(send_unknown, ptype)
       THEN /\ accEvent' = [NoAccept EXCEPT !.outcome = "skipped", !.ptype = ptype,
                                           !.connected = socket_connected /\ wsOpen]
            /\ UNCHANGED <<should_log, accPc, dropsSince, logsSince>>
       ELSE IF convert_value_raises(ptype)
       THEN /\ accEvent' = [NoAccept EXCEPT !.outcome = "raised", !.ptype = ptype,
                                           !.connected = socket_connected /\ wsOpen,
                                           !.raised = "AttributeError"]
            /\ UNCHANGED <<should_log, accPc, dropsSince, logsSince>>
       ELSE IF socket_connected
       THEN /\ accPc' = "sending"
            /\ accEvent' = [NoAccept EXCEPT !.outcome = "sending", !.ptype = ptype,
                                           !.connected = wsOpen]
            /\ UNCHANGED <<should_log, dropsSince, logsSince>>
       ELSE /\ dropsSince < MaxDrops
            /\ accEvent' = [NoAccept EXCEPT !.outcome = "dropped", !.ptype = ptype,
                                           !.logged = log_drop(should_log)]
            /\ should_log' = FALSE
            /\ dropsSince' = dropsSince + 1
            /\ logsSince' = IF log_drop(should_log) THEN logsSince + 1 ELSE logsSince
            /\ accPc' = accPc
    /\ event' = NoEvent
    /\ UNCHANGED acceptFrame

\* A reading of the given type is handed to the publisher.
SkAccept(ptype) == accept_engine_data(ptype) /\ UNCHANGED cvVars

\* `await self.__websocket.send(json.dumps(delta))` returns, or raises
\* ConnectionClosed, which accept_engine_data catches and logs.
SkAcceptSent ==
    /\ accPc = "sending" /\ Yielded
    /\ accPc' = "idle"
    /\ IF wsOpen
       THEN /\ accEvent' = [accEvent EXCEPT !.outcome = "sent", !.sent = 1]
            /\ should_log' = TRUE
            /\ dropsSince' = 0
            /\ logsSince' = 0
       ELSE /\ accEvent' = [accEvent EXCEPT !.outcome = "send_failed", !.connected = FALSE,
                                           !.raised = "ConnectionClosed"]
            /\ UNCHANGED <<should_log, dropsSince, logsSince>>
    /\ event' = NoEvent
    /\ UNCHANGED sendFrame

\* The publisher with telemetry arriving.
NextPublish ==
    \/ NextSk
    \/ \E ptype \in ParamTypes : SkAccept(ptype)
    \/ SkAcceptSent

\* Both settings of send_unknown_parameters, one retry interval.
InitPublish ==
    InitBle({}, {0}) /\ InitSk /\ InitRetry({1}) /\ InitAccept(BOOLEAN) /\ InitDec /\ InitCv /\ InitFq /\ InitHealth

SpecPublish == InitPublish /\ [][NextPublish]_vars

----------------------------------------------------------------------------
\* FuturesQueue, driven by arbitrary calls.

fqFrame == <<bleVars, skVars, decVars, health, event>>

\* A future that becomes done hands each of its callbacks to the event loop.
schedule_callbacks(pr) == [pr EXCEPT !.sched = pr.sched + pr.cbs, !.cbs = 0]

\* Future.add_done_callback: kept until the future is done, or handed to the
\* event loop at once when it already is.
add_done_callback(pr) ==
    IF pr.state = "pending"
    THEN [pr EXCEPT !.cbs = pr.cbs + 1]
    ELSE [pr EXCEPT !.sched = pr.sched + 1]

\* The callbacks attached so far to the promises in ps.
RECURSIVE Attached(_)
Attached(ps) ==
    IF ps = {} THEN 0
    ELSE LET p == CHOOSE x \in ps : TRUE
         IN prom[p].cbs + prom[p].sched + prom[p].calls + Attached(ps \ {p})

\* register: the promise stored under the key, whatever its state, or a new one.
register_returns(q, key, fresh) == IF q[key] # 0 THEN q[key] ELSE fresh

\* register(key), and register_callback(key, fn) when with_callback.
FqRegister(key, with_callback) ==
    LET p == register_returns(fq, key, nextP)
        created == fq[key] = 0
        pr1 == IF created THEN [NoPromise EXCEPT !.state = "pending", !.key = key] ELSE prom[p]
    IN
    /\ created => nextP <= MaxPromises
    /\ with_callback => Attached(Promises) < MaxCallbacks
    /\ fq' = [fq EXCEPT ![key] = p]
    /\ prom' = [prom EXCEPT ![p] = IF with_callback THEN add_done_callback(pr1) ELSE pr1]
    /\ nextP' = IF created THEN nextP + 1 ELSE nextP
    /\ fqEvent' = [NoCall EXCEPT !.op = IF with_callback THEN "register_callback" ELSE "register",
                                 !.key = key, !.p = p, !.ret = pr1.state]
    /\ UNCHANGED <<waiter, fqFrame>>

\* trigger: `self.__queue.pop(key, None)`.
trigger_map(q, key) == [q EXCEPT ![key] = 0]

\* trigger: `future.set_result(value)`; a cancelled future raises InvalidStateError.
set_result(pr, value) ==
    IF pr.state = "pending"
    THEN schedule_callbacks([pr EXCEPT !.state = "resolved", !.value = value])
    ELSE pr

\* A trigger that reports a listener whether or not there is one.
trigger_result_true(present) == "True"

\* trigger: `return True` inside `if key in self.__queue:`, else `return False`.
trigger_result(present) == IF present THEN "True" ELSE "False"

\* trigger(key, value).
FqTrigger(key, value) ==
    LET p == fq[key] IN
    /\ IF p = 0
       THEN /\ fqEvent' = [NoCall EXCEPT !.op = "trigger", !.key = key, !.value = value,
                                        !.ret = trigger_result(FALSE)]
            /\ UNCHANGED <<fq, prom>>
       ELSE /\ fq' = trigger_map(fq, key)
            /\ prom' = [prom EXCEPT ![p] = set_result(prom[p], value)]
            /\ fqEvent' = [NoCall EXCEPT !.op = "trigger", !.key = key, !.p = p, !.value = value,
                                        !.ret = IF prom[p].state = "pending" THEN trigger_result(TRUE) ELSE "none",
                                        !.raised = IF prom[p].state = "pending" THEN "none"
                                                   ELSE "InvalidStateError"]
    /\ UNCHANGED <<nextP, waiter, fqFrame>>

\* A wait that returns something else than the default it was given.
wait_default_other(default_value) == "other"

\* wait_for_data: what is returned without a result (no entry, or the timeout).
wait_default(default_value) == default_value

\* wait_for_data(key, timeout, default) up to its return or its await:
\* no entry: the default, at once; a pending promise: the task suspends; a
\* cancelled promise: asyncio.wait_for raises CancelledError, which
\* `except TimeoutError` does not catch.
FqWaitStart(key) ==
    LET p == fq[key] IN
    /\ waiter.state = "idle"
    /\ IF p = 0
       THEN /\ fqEvent' = [NoCall EXCEPT !.op = "wait", !.key = key,
                                        !.value = wait_default(FqDefault), !.ret = "returned"]
            /\ waiter' = waiter
       ELSE IF prom[p].state = "pending"
       THEN /\ fqEvent' = [NoCall EXCEPT !.op = "wait", !.key = key, !.p = p, !.suspended = TRUE]
            /\ waiter' = [state |-> "waiting", p |-> p]
       ELSE /\ fqEvent' = [NoCall EXCEPT !.op = "wait", !.key = key, !.p = p,
                                        !.raised = "CancelledError"]
            /\ waiter' = waiter
    /\ UNCHANGED <<fq, prom, nextP, fqFrame>>

\* A wait that returns the default although the promise was resolved.
wait_result_default(value, default_value) == default_value

\* wait_for_data: `data = await asyncio.wait_for(future, timeout)`, `return data`.
wait_result(value, default_value) == value

\* The awaited promise was resolved before the timeout: wait_for_data returns.
FqWaitReturns ==
    /\ waiter.state = "waiting"
    /\ prom[waiter.p].state = "resolved"
    /\ fqEvent' = [NoCall EXCEPT !.op = "wait_return", !.key = prom[waiter.p].key, !.p = waiter.p,
                                 !.value = wait_result(prom[waiter.p].value, FqDefault),
                                 !.ret = "returned"]
    /\ waiter' = NoWaiter
    /\ UNCHANGED <<fq, prom, nextP, fqFrame>>

\* asyncio.wait_for at its timeout: it cancels the future it was given, which is
\* the promise stored in the queue.
wait_for_timeout(pr) == schedule_callbacks([pr EXCEPT !.state = "cancelled"])

\* The timeout elapses with the promise pending: `except TimeoutError: return default_value`.
FqWaitTimeout ==
    /\ waiter.state = "waiting"
    /\ prom[waiter.p].state = "pending"
    /\ prom' = [prom EXCEPT ![waiter.p] = wait_for_timeout(prom[waiter.p])]
    /\ fqEvent' = [NoCall EXCEPT !.op = "wait_timeout", !.key = prom[waiter.p].key, !.p = waiter.p,
                                 !.value = wait_default(FqDefault), !.ret = "returned"]
    /\ waiter' = NoWaiter
    /\ UNCHANGED <<fq, nextP, fqFrame>>

\* The event loop makes one callback call that a done promise handed to it.
FqCallback(p) ==
    /\ prom[p].sched > 0
    /\ prom' = [prom EXCEPT ![p].sched = @ - 1, ![p].calls = @ + 1]
    /\ fqEvent' = [NoCall EXCEPT !.op = "callback", !.key = prom[p].key, !.p = p]
    /\ UNCHANGED <<fq, nextP, waiter, fqFrame>>

NextQueue ==
    \/ \E key \in FqKeys, with_callback \in BOOLEAN : FqRegister(key, with_callback)
    \/ \E key \in FqKeys, value \in FqValues : FqTrigger(key, value)
    \/ \E key \in FqKeys : FqWaitStart(key)
    \/ FqWaitReturns \/ FqWaitTimeout
    \/ \E p \in Promises : FqCallback(p)

\* The queue on its own: the other components stay as constructed.
InitQueue == InitBle({}, {0}) /\ InitSk /\ ~username /\ InitRetry({1}) /\ InitAccept({FALSE}) /\ InitDec /\ InitCv /\ InitFq /\ InitHealth

SpecQueue == InitQueue /\ [][NextQueue]_vars

----------------------------------------------------------------------------
\* ConfigDecoder.  A chunk is the sequence of its bytes, the first byte being
\* its sequence index; chunks are never empty.

decFrame == <<bleVars, skVars, fqVars, health, event, cvVars>>

Min(a, b) == IF a < b THEN a ELSE b

\* Python's s[a:b] on a sequence of bytes (a, b >= 0).
slice(s, a, b) == IF a >= Min(b, Len(s)) THEN <<>> ELSE SubSeq(s, a + 1, Min(b, Len(s)))

\* int.from_bytes(bs), big-endian as by default.
RECURSIVE int_from_bytes(_)
int_from_bytes(bs) ==
    IF bs = <<>> THEN 0 ELSE int_from_bytes(SubSeq(bs, 1, Len(bs) - 1)) * 256 + bs[Len(bs)]

\* int.from_bytes(bs, byteorder='little')
RECURSIVE int_from_bytes_little(_)
int_from_bytes_little(bs) ==
    IF bs = <<>> THEN 0 ELSE bs[1] + 256 * int_from_bytes_little(Tail(bs))

\* add(item): a list of chunks extends the known data, a bytes object is appended.
add(known, item) == IF item.iterable THEN known \o item.data ELSE Append(known, item.data)

\* A decoder that keeps its cached result when a chunk arrives.
add_keeps_state(state) == state

\* add: `self.__has_all_data = None`.
add_state(state) == "None"

\* A sort that leaves the chunks in the order they arrived.
insert_at_end(sorted, chunk) == Append(sorted, chunk)

\* One step of the stable sort: the chunk goes before the first chunk of a
\* higher index.
insert_by_index(sorted, chunk) ==
    LET higher == {i \in 1 .. Len(sorted) : sorted[i][1] > chunk[1]}
        pos == IF higher = {} THEN Len(sorted) + 1
               ELSE CHOOSE i \in higher : \A j \in higher : i <= j
    IN SubSeq(sorted, 1, pos - 1) \o <<chunk>> \o SubSeq(sorted, pos, Len(sorted))

\* combine_and_parse_data: `sorted(data, key=lambda x: x[0])`.
RECURSIVE sorted_data(_)
sorted_data(data) ==
    IF data = <<>> THEN <<>>
    ELSE insert_by_index(sorted_data(SubSeq(data, 1, Len(data) - 1)), data[Len(data)])

\* Chunks joined with their index byte left in.
keep_index_byte(byte_array) == byte_array

\* combine_and_parse_data: `byte_array[1:]`.
clean_data(byte_array) == Tail(byte_array)

\* combine_and_parse_data: `b''.join(clean_data)` of the sorted chunks.
RECURSIVE join(_)
join(chunks) == IF chunks = <<>> THEN <<>> ELSE clean_data(Head(chunks)) \o join(Tail(chunks))

combined(data) == join(sorted_data(data))

\* A length check that always passes.
length_of_data_actual(combined_data) == Len(slice(combined_data, 3, Len(combined_data)))

\* parse_params: `int.from_bytes(combined_data[1:2], byteorder='little')`.
length_of_data(combined_data) == int_from_bytes_little(slice(combined_data, 1, 2))

\* parse_params: `len(combined_data[3:])`.
actual_length(combined_data) == Len(slice(combined_data, 3, Len(combined_data)))

\* pop_bytes: the first num_bytes bytes, and the rest.
pop_bytes(byte_array, num_bytes) ==
    <<slice(byte_array, 0, num_bytes), slice(byte_array, num_bytes, Len(byte_array))>>

\* EngineParameter.__init__: `EngineParameterType(parameter & 0xFF)` raises
\* ValueError for a value the enumeration does not have.
valid_parameter_type(param_id) == param_id % 256 <= LastParameterType

\* parse_params, the record loop: what it raises, the state it sets ("keep":
\* none) and the records found.
RECURSIVE parse_records(_, _)
parse_records(parsing_data, found_params) ==
    IF Len(parsing_data) = 0
    THEN [raised |-> "none", state |-> "True", params |-> found_params]
    ELSE LET popped == pop_bytes(parsing_data, 4)
             next_param == popped[1]
             rest == popped[2]
             param_id == int_from_bytes(slice(next_param, 0, 2))
             header_id == int_from_bytes(slice(next_param, 2, Len(next_param)))
         IN IF ~valid_parameter_type(param_id)
            THEN [raised |-> "not a valid EngineParameterType", state |-> "keep", params |-> <<>>]
            ELSE IF 0 < Len(rest) /\ Len(rest) < 4
            THEN [raised |-> "Incorrect data length.", state |-> "False", params |-> <<>>]
            ELSE parse_records(rest, Append(found_params,
                        [parameter_id |-> param_id, notification_header |-> header_id]))

\* A decoder that marks an empty buffer invalid.
no_data_state_false(state) == "False"

\* parse_params: `if not combined_data: self.has_all_data = None`.
no_data_state(state) == "None"

\* parse_params(combined_data): every error it raises is a ValueError.
parse_params(combined_data, state) ==
    IF combined_data = <<>>
    THEN [raised |-> "No data to parse.", state |-> no_data_state(state), params |-> <<>>]
    ELSE IF combined_data[1] # MagicByte
    THEN [raised |-> "Value of first byte is not expected value.", state |-> "False", params |-> <<>>]
    ELSE IF actual_length(combined_data) # length_of_data(combined_data)
    THEN [raised |-> "Expected bytes", state |-> "False", params |-> <<>>]
    ELSE LET r == parse_records(pop_bytes(slice(combined_data, 3, Len(combined_data)), 2)[2], <<>>)
         IN [r EXCEPT !.state = IF r.state = "keep" THEN state ELSE r.state]

combine_and_parse_data(data, state) == parse_params(combined(data), state)

\* The sequence indices of the chunks held.
Indices(data) == {data[i][1] : i \in 1 .. Len(data)}

\* decoder.add(item)
DecAdd(item) ==
    /\ Len(add(known_data, item)) <= MaxChunks
    /\ known_data' = add(known_data, item)
    /\ has_all_data' = add_state(has_all_data)
    /\ decEvent' = [NoDecode EXCEPT !.op = "add", !.before = has_all_data, !.prev = decEvent.op]
    /\ UNCHANGED <<parameters, decFrame>>

\* decoder.combine_and_parse_data()
DecCombine ==
    \E r \in {combine_and_parse_data(known_data, has_all_data)} :
    /\ has_all_data' = r.state
    /\ parameters' = IF r.raised = "none" THEN r.params ELSE parameters
    /\ decEvent' = [NoDecode EXCEPT !.op = "combine", !.raised = r.raised,
                                   !.ret = IF r.raised = "none" THEN "list" ELSE "none",
                                   !.count = Len(r.params),
                                   !.before = decEvent.before, !.prev = decEvent.op]
    /\ UNCHANGED <<known_data, decFrame>>

\* decoder.has_all_data: parses when the state is unknown, swallowing ValueError.
DecHasAllData ==
    \E parse \in {has_all_data = "None"} :
    \E r \in {IF parse THEN combine_and_parse_data(known_data, has_all_data)
                       ELSE [raised |-> "none", state |-> has_all_data, params |-> parameters]} :
    /\ has_all_data' = IF parse THEN r.state ELSE has_all_data
    /\ parameters' = IF parse /\ r.raised = "none" THEN r.params ELSE parameters
    /\ decEvent' = [NoDecode EXCEPT !.op = "has_all_data", !.ret = has_all_data',
                                   !.count = Len(parameters'),
                                   !.before = decEvent.before, !.prev = decEvent.op]
    /\ UNCHANGED <<known_data, decFrame>>

\* A two-record table in three chunks.
TableChunks == << <<0, MagicByte, 10, 0, 1>>, <<1, 0, 0, 0, 1, 0>>, <<2, 0, 8, 0, 5>> >>

\* Its first chunk with the high byte of the length set: sixteen bits give 266.
HighByteChunk == <<0, MagicByte, 10, 1, 1>>

\* The two bytes of the table-format marker followed by n records.
RECURSIVE Records(_)
Records(n) == IF n = 0 THEN <<1, 0>> ELSE Records(n - 1) \o <<0, 8, 0, 5>>

\* A table of 64 records in one chunk: 258 bytes follow the length field, which
\* holds 258 in sixteen bits, little-endian.
LongChunk == <<0, MagicByte, 2, 1>> \o Records(64)

\* Record areas that are not whole records: one byte, and a record and a byte.
ByteChunk == <<0, MagicByte, 3, 0, 1, 0, 7>>
RecordAndByteChunk == <<0, MagicByte, 7, 0, 1, 0, 0, 0, 1, 0, 9>>

\* A record whose type the enumeration does not have, and a wrong first byte.
BadTypeChunk == <<0, MagicByte, 6, 0, 1, 0, 0, 32, 0, 5>>
BadMagicChunk == <<0, 41, 2, 0, 1, 0>>

\* What is handed to add(): single chunks, and a list of chunks.
Items ==
    {[iterable |-> FALSE, data |-> TableChunks[i]] : i \in 1 .. 3}
    \cup {[iterable |-> FALSE, data |-> c] :
            c \in {HighByteChunk, LongChunk, ByteChunk, RecordAndByteChunk, BadTypeChunk, BadMagicChunk}}
    \cup {[iterable |-> TRUE, data |-> <<TableChunks[2], TableChunks[3]>>]}

NextDecoder ==
    \/ \E item \in Items : DecAdd(item)
    \/ DecCombine
    \/ DecHasAllData

InitDecoder ==
    InitBle({}, {0}) /\ InitSk /\ ~username /\ InitRetry({1}) /\ InitAccept({FALSE}) /\ InitDec /\ InitCv /\ InitFq /\ InitHealth

SpecDecoder == InitDecoder /\ [][NextDecoder]_vars

\* The ten chunks of the decoder test.
Fixture == <<
    <<0, 40, 182, 0, 1, 0, 0, 0, 1, 0, 0, 1, 210, 0, 0, 2, 232, 0, 0, 3>>,
    <<1, 112, 23, 0, 4, 150, 0, 0, 5, 10, 0, 0, 6, 64, 31, 0, 7, 16, 39, 0>>,
    <<2, 8, 181, 0, 0, 9, 212, 0, 0, 10, 182, 0, 0, 11, 251, 0, 0, 12, 0, 0>>,
    <<3, 0, 13, 0, 0, 0, 14, 0, 0, 1, 0, 0, 0, 1, 1, 0, 0, 1, 2, 0>>,
    <<4, 0, 1, 3, 0, 0, 1, 4, 0, 0, 1, 5, 0, 0, 1, 6, 0, 0, 1, 7>>,
    <<5, 0, 0, 1, 8, 0, 0, 1, 9, 0, 0, 1, 10, 0, 0, 1, 11, 0, 0, 1>>,
    <<6, 12, 0, 0, 1, 13, 0, 0, 1, 14, 0, 0, 2, 0, 0, 0, 2, 1, 0, 0>>,
    <<7, 2, 2, 0, 0, 2, 3, 0, 0, 2, 4, 0, 0, 2, 5, 0, 0, 2, 6, 0>>,
    <<8, 0, 2, 7, 0, 0, 2, 8, 0, 0, 2, 9, 0, 0, 2, 10, 0, 0, 2, 11>>,
    <<9, 0, 0, 2, 12, 0, 0, 2, 13, 0, 0, 2, 14, 0, 0>>>>

\* The fixture chunks not yet added.
Missing == {i \in 1 .. Len(Fixture) : Fixture[i][1] \notin Indices(known_data)}

\* decoder.add of a fixture chunk, each once: the lowest or the highest of the
\* chunks still missing.
DecAddFixture(i) ==
    /\ i \in Missing
    /\ \/ \A j \in Missing : i <= j
       \/ \A j \in Missing : i >= j
    /\ known_data' = add(known_data, [iterable |-> FALSE, data |-> Fixture[i]])
    /\ has_all_data' = add_state(has_all_data)
    /\ decEvent' = [NoDecode EXCEPT !.op = "add", !.before = has_all_data, !.prev = decEvent.op]
    /\ UNCHANGED <<parameters, decFrame>>

NextFixture ==
    \/ \E i \in 1 .. Len(Fixture) : DecAddFixture(i)
    \/ DecCombine
    \/ DecHasAllData

SpecFixture == InitDecoder /\ [][NextFixture]_vars

----------------------------------------------------------------------------
\* Conversion.  A value is a number n / d * 2.77778e-9^f (see Num).

cvFrame == <<bleVars, skVars, fqVars, health, event, known_data, has_all_data, parameters,
             decEvent>>

rpm_to_hertz(rpm) == [rpm EXCEPT !.d = @ * 60]

\* celsius + 273.15, 273.15 being 5463 / 20
celsius_to_kelvin(celsius) == [celsius EXCEPT !.n = @ * 20 + 5463 * celsius.d, !.d = @ * 20]

minutes_to_seconds(minutes) == [minutes EXCEPT !.n = @ * 60]

\* cl_per_hour * 2.77778e-9
cl_per_hour_to_m3_per_sec(cl_per_hour) == [cl_per_hour EXCEPT !.f = @ + 1]

\* value / 1.25
convert_pressure_to_pascals(value) == [value EXCEPT !.n = @ * 4, !.d = @ * 5]

millivolts_to_volts(value) == [value EXCEPT !.d = @ * 1000]

identity_function(value) == value

\* Calling the function conversion_for_parameter_type returned.
conversion_func(name, value) ==
    CASE name = "millivolts_to_volts" -> millivolts_to_volts(value)
      [] name = "celsius_to_kelvin" -> celsius_to_kelvin(value)
      [] name = "cl_per_hour_to_m3_per_sec" -> cl_per_hour_to_m3_per_sec(value)
      [] name = "rpm_to_hertz" -> rpm_to_hertz(value)
      [] name = "minutes_to_seconds" -> minutes_to_seconds(value)
      [] name = "convert_pressure_to_pascals" -> convert_pressure_to_pascals(value)
      [] name = "identity_function" -> identity_function(value)

\* Two values are the same number.
same_value(a, b) == a.n * b.d = b.n * a.d /\ (a.n = 0 \/ a.f = b.f)

----------------------------------------------------------------------------
\* Conversion.safe_eval_formula.  A formula is the sequence of its tokens,
\* written with one space between two tokens.

\* The tokens formulas are made of here: two numbers, the names `value` and
\* `abs` of allowed_names, a name that is not allowed, division and parentheses.
Tokens == {"1", "0", "value", "abs", "open", "/", "(", ")"}
NumberTokens == {"1", "0"}
NameTokens == {"value", "abs", "open"}
number_of(tok) == IF tok = "1" THEN 1 ELSE 0

\* The first character of a token.
first_char(tok) ==
    CASE tok = "value" -> "v"
      [] tok = "abs" -> "a"
      [] tok = "open" -> "o"
      [] OTHER -> tok

\* The character class [0-9+\-*/.() \t\n] of safe_pattern.
SafeChars == {"0", "1", "2", "3", "4", "5", "6", "7", "8", "9",
              "+", "-", "*", "/", ".", "(", ")", " ", "\t", "\n"}

\* The keys of allowed_names that are identifiers.
allowed_identifiers == {"value", "abs", "min", "max", "round", "pow", "__builtins__"}

\* re.match(safe_pattern, formula) with
\* safe_pattern = ^[0-9+\-*/.() \t\n]|(value|abs|...)+$ : the alternation binds
\* weakest, so the pattern matches a formula whose first character is in the
\* class, and a formula that is nothing but allowed names written together (of
\* the formulas here: a single allowed name).
safe_pattern(tokens) ==
    /\ tokens # <<>>
    /\ \/ first_char(tokens[1]) \in SafeChars
       \/ Len(tokens) = 1 /\ tokens[1] \in allowed_identifiers

\* What Python's eval computes: a number, a builtin function, the empty tuple,
\* or the exception raised.
EvNum(n, d) == [t |-> "num", n |-> n, d |-> d, e |-> "none"]
EvFn == [t |-> "fn", n |-> 0, d |-> 1, e |-> "none"]
EvTuple == [t |-> "tuple", n |-> 0, d |-> 1, e |-> "none"]
EvErr(e) == [t |-> "err", n |-> 0, d |-> 1, e |-> e]

\* A name looked up in allowed_names; `"__builtins__": {}` hides every builtin.
name_value(name, value) ==
    CASE name = "value" -> EvNum(value.n, value.d)
      [] name \in {"abs", "min", "max", "round", "pow"} -> EvFn
      [] OTHER -> EvErr("NameError")

\* a / b: the operands are evaluated left to right, then divided.
true_div(a, b) ==
    CASE a.t = "err" -> a
      [] b.t = "err" -> b
      [] a.t # "num" \/ b.t # "num" -> EvErr("TypeError")
      [] b.n = 0 -> EvErr("ZeroDivisionError")
      [] OTHER -> EvNum(a.n * b.d, a.d * b.n)

\* func(arg) or func(): the function, then the argument, then the call; abs
\* takes exactly one number.
call(func, has_arg, arg) ==
    CASE func.t = "err" -> func
      [] has_arg /\ arg.t = "err" -> arg
      [] func.t # "fn" \/ ~has_arg \/ arg.t # "num" -> EvErr("TypeError")
      [] OTHER -> EvNum(IF arg.n < 0 THEN 0 - arg.n ELSE arg.n, arg.d)

ParseFails == [ok |-> FALSE, v |-> EvErr("SyntaxError"), next |-> 0]

\* Python's expression grammar over these tokens:
\*   term: primary ('/' primary)*      primary: atom ('(' [term] ')')*
\*   atom: NUMBER | NAME | '(' [term] ')'
\* Each operator returns whether it parsed, the value, and the next position.
RECURSIVE parse_atom(_, _, _), parse_trailers(_, _, _, _), parse_primary(_, _, _)
RECURSIVE parse_term_rest(_, _, _, _), parse_term(_, _, _)
parse_atom(toks, i, value) ==
    IF i > Len(toks) THEN ParseFails
    ELSE IF toks[i] \in NumberTokens
    THEN [ok |-> TRUE, v |-> EvNum(number_of(toks[i]), 1), next |-> i + 1]
    ELSE IF toks[i] \in NameTokens
    THEN [ok |-> TRUE, v |-> name_value(toks[i], value), next |-> i + 1]
    ELSE IF toks[i] # "(" THEN ParseFails
    ELSE IF i + 1 <= Len(toks) /\ toks[i + 1] = ")"
    THEN [ok |-> TRUE, v |-> EvTuple, next |-> i + 2]
    ELSE LET r == parse_term(toks, i + 1, value)
         IN IF r.ok /\ r.next <= Len(toks) /\ toks[r.next] = ")"
            THEN [r EXCEPT !.next = @ + 1]
            ELSE ParseFails

parse_trailers(toks, i, value, v) ==
    IF i > Len(toks) \/ toks[i] # "(" THEN [ok |-> TRUE, v |-> v, next |-> i]
    ELSE IF i + 1 <= Len(toks) /\ toks[i + 1] = ")"
    THEN parse_trailers(toks, i + 2, value, call(v, FALSE, v))
    ELSE LET a == parse_term(toks, i + 1, value)
         IN IF a.ok /\ a.next <= Len(toks) /\ toks[a.next] = ")"
            THEN parse_trailers(toks, a.next + 1, value, call(v, TRUE, a.v))
            ELSE ParseFails

parse_primary(toks, i, value) ==
    LET a == parse_atom(toks, i, value)
    IN IF a.ok THEN parse_trailers(toks, a.next, value, a.v) ELSE ParseFails

parse_term_rest(toks, i, value, v) ==
    IF i > Len(toks) \/ toks[i] # "/" THEN [ok |-> TRUE, v |-> v, next |-> i]
    ELSE LET r == parse_primary(toks, i + 1, value)
         IN IF r.ok THEN parse_term_rest(toks, r.next, value, true_div(v, r.v))
            ELSE ParseFails

parse_term(toks, i, value) ==
    LET a == parse_primary(toks, i, value)
    IN IF a.ok THEN parse_term_rest(toks, a.next, value, a.v) ELSE ParseFails

\* eval(formula, allowed_names): SyntaxError unless the whole text is one expression.
eval(toks, value) ==
    LET r == parse_term(toks, 1, value)
    IN IF r.ok /\ r.next = Len(toks) + 1 THEN r.v ELSE EvErr("SyntaxError")

\* float(result): a number, or TypeError.
float_of(r) == IF r.t \in {"fn", "tuple"} THEN EvErr("TypeError") ELSE r

\* An evaluator that answers 0 when the formula cannot be used.
fallback_zero(value) == Num(0)

\* `return value`: the three places where safe_eval_formula gives up.
fallback(value) == value

\* `except Exception as e`: the exceptions eval and float raise here are all
\* subclasses of Exception.
except_Exception(e) == e \in {"SyntaxError", "NameError", "TypeError", "ZeroDivisionError"}

\* safe_eval_formula(formula, value): whether the pattern accepted the formula,
\* whether eval was called, the exception caught or raised, and the value returned.
safe_eval_formula(formula, value) ==
    IF ~formula.given
    THEN [accepted |-> FALSE, evaluated |-> FALSE, caught |-> "none", raised |-> "none",
          result |-> fallback(value)]
    ELSE IF ~safe_pattern(formula.tokens)
    THEN [accepted |-> FALSE, evaluated |-> FALSE, caught |-> "none", raised |-> "none",
          result |-> fallback(value)]
    ELSE LET r == float_of(eval(formula.tokens, value))
         IN IF r.t = "num"
            THEN [accepted |-> TRUE, evaluated |-> TRUE, caught |-> "none", raised |-> "none",
                  result |-> [n |-> r.n, d |-> r.d, f |-> 0]]
            ELSE IF except_Exception(r.e)
            THEN [accepted |-> TRUE, evaluated |-> TRUE, caught |-> r.e, raised |-> "none",
                  result |-> fallback(value)]
            ELSE [accepted |-> TRUE, evaluated |-> TRUE, caught |-> "none", raised |-> r.e,
                  result |-> value]

\* Conversion.safe_eval_formula(formula, value) is called.
CvSafeEval ==
    \E r \in {safe_eval_formula(cvIn.formula, cvIn.value)} :
    /\ cvOut.op = "none"
    /\ cvOut' = [NoConv EXCEPT !.op = "safe_eval_formula", !.accepted = r.accepted,
                               !.evaluated = r.evaluated, !.caught = r.caught,
                               !.raised = r.raised, !.result = r.result]
    /\ UNCHANGED <<cvIn, delivered, cvFrame>>

\* The formulas of at most n tokens.
Formulas(n) == UNION {[1 .. m -> Tokens] : m \in 0 .. n}

\* The values a formula is evaluated with.
CvValues == {Num(0), Num(2)}

\* A formula (or None) and a value are given.
InitFormula ==
    /\ InitBle({}, {0}) /\ InitSk /\ ~username /\ InitRetry({1}) /\ InitAccept({FALSE})
    /\ InitDec /\ InitFq /\ InitHealth
    /\ cvIn \in {[NoInput EXCEPT !.formula = [given |-> g, tokens |-> t], !.value = v] :
                    g \in BOOLEAN, t \in Formulas(MaxTokens), v \in CvValues}
    /\ ~cvIn.formula.given => cvIn.formula.tokens = <<>>
    /\ cvOut = NoConv
    /\ delivered = <<>>

SpecFormula == InitFormula /\ [][CvSafeEval]_vars

----------------------------------------------------------------------------
\* One reading, from the notification to the delta.  The publisher is the
\* data receiver; the tasks _publish_data creates for it are kept, with their
\* arguments, in `delivered`.

\* Length of the longest notification payload, and the byte values it is made of.
MaxPayload == 3
PayloadBytes == {0, 1, 2}

\* EngineParameter.__init__: parameter_type, enabled
parameter_type(param) == param.parameter_id % 256
enabled(param) == param.notification_header # 0

\* Parameter tables handed to update_engine_params: the port engine's RPM under
\* header 0x0102; the same with a coolant temperature the device does not
\* stream (header 0); a battery voltage under header 1 with a disabled
\* descriptor of a type that has no conversion.
TableEnabled == <<[parameter_id |-> 0, notification_header |-> 258]>>
TableDisabled == <<[parameter_id |-> 0, notification_header |-> 258],
                   [parameter_id |-> 1, notification_header |-> 0]>>
TableUnknown == <<[parameter_id |-> 258, notification_header |-> 1],
                  [parameter_id |-> 14, notification_header |-> 0]>>
EngineTables == {TableEnabled, TableDisabled, TableUnknown}

\* update_engine_params: `{ param.notification_header: param for param in engine_params }`,
\* a later descriptor replacing an earlier one with the same header.
engine_parameters_of(engine_params) ==
    [h \in {engine_params[i].notification_header : i \in DOMAIN engine_params} |->
        engine_params[CHOOSE i \in DOMAIN engine_params :
                        /\ engine_params[i].notification_header = h
                        /\ \A j \in DOMAIN engine_params :
                             engine_params[j].notification_header = h => j <= i]]

\* notification_handler: `self.__engine_parameters.get(data_header)`, then `if matching_param:`
matching_param(table, header) ==
    LET d == engine_parameters_of(table)
    IN  IF header \in DOMAIN d
        THEN [found |-> TRUE, param |-> d[header]]
        ELSE [found |-> FALSE, param |-> [parameter_id |-> 0, notification_header |-> 0]]

\* _strip_header_and_convert_to_int
_strip_header_and_convert_to_int(data) == int_from_bytes_little(slice(data, 2, Len(data)))

\* A ConversionConfig: None, or its __conversions dictionary.
NoConfig == [given |-> FALSE, conversions |-> EmptyTable]
ConfigEmpty == [given |-> TRUE, conversions |-> EmptyTable]
ConfigRpm == [given |-> TRUE, conversions |-> (ENGINE_RPM :> <<"(", "value", ")">>)]
ConversionConfigs == {NoConfig, ConfigEmpty, ConfigRpm}

\* ConversionConfig.has_conversion, get_conversion_formula
has_conversion(config, param_type) == param_type \in DOMAIN config.conversions
get_conversion_formula(config, param_type) ==
    [given |-> TRUE, tokens |-> config.conversions[param_type]]

\* Calling what conversion_for_parameter_type(param) returned, or the error
\* the lookup raised.
convert_default(param, value) ==
    LET name == conversion_for_parameter_type(param)
    IN  IF name = "AttributeError"
        THEN [raised |-> "AttributeError", result |-> value]
        ELSE [raised |-> "none", result |-> conversion_func(name, value)]

\* Conversion.convert_with_config(param, value, config)
convert_with_config(param, value, config) ==
    IF config.given /\ has_conversion(config, param)
    THEN LET r == safe_eval_formula(get_conversion_formula(config, param), value)
         IN  [raised |-> r.raised, result |-> r.result]
    ELSE convert_default(param, value)

\* SignalKPublisher.convert_value(param, value)
convert_value(ptype, value) == convert_default(ptype, value)

\* `convert_func = Conversion.conversion_for_parameter_type(p); convert_func(value)`
CvLookup ==
    \E r \in {convert_default(cvIn.ptype, cvIn.value)} :
    /\ Yielded
    /\ cvOut' = [NoConv EXCEPT !.op = "conversion_for_parameter_type",
                               !.ptype = cvIn.ptype, !.raw = cvIn.value,
                               !.raised = r.raised, !.result = r.result]
    /\ event' = NoEvent
    /\ UNCHANGED <<cvIn, delivered, bleVars, skVars, fqVars, health, known_data,
                   has_all_data, parameters, decEvent>>

\* Conversion.convert_with_config(param, value, config) is called.
CvConvertWithConfig ==
    \E r \in {convert_with_config(cvIn.ptype, cvIn.value, cvIn.overrides)} :
    /\ Yielded
    /\ cvOut' = [NoConv EXCEPT !.op = "convert_with_config",
                               !.ptype = cvIn.ptype, !.raw = cvIn.value,
                               !.raised = r.raised, !.result = r.result]
    /\ event' = NoEvent
    /\ UNCHANGED <<cvIn, delivered, bleVars, skVars, fqVars, health, known_data,
                   has_all_data, parameters, decEvent>>

\* notification_handler(characteristic, data) with the table installed by
\* update_engine_params, no request being in flight: a matched notification is
\* decoded, converted by _convert_and_publish_data and handed to the receiver
\* by _publish_data; any other is passed on raw and reaches no receiver.
CvNotify ==
    LET hdr == int_from_bytes(slice(cvIn.data, 0, 2))
        m == matching_param(cvIn.table, hdr)
        decoded == Num(_strip_header_and_convert_to_int(cvIn.data))
        ptype == parameter_type(m.param)
        r == convert_default(ptype, decoded)
        dispatched == m.found /\ r.raised = "none"
    IN
    /\ Yielded
    /\ \A key \in DOMAIN queue : queue[key] = "absent"
    /\ dispatched => Len(delivered) < MaxPending
    /\ lastAge' = 0
    /\ IF m.found
       THEN /\ cvOut' = [NoConv EXCEPT !.op = "notification_handler", !.route = "telemetry",
                                       !.header = hdr, !.ptype = ptype, !.raw = decoded,
                                       !.raised = r.raised, !.result = r.result]
            /\ delivered' = IF dispatched
                            THEN Append(delivered, [ptype |-> ptype, value |-> r.result,
                                                    header |-> hdr, reading |-> decoded])
                            ELSE delivered
            /\ event' = [kind |-> "notification", matched |-> TRUE,
                         created |-> IF dispatched THEN 1 ELSE 0,
                         raised |-> ~dispatched, stopped |-> FALSE]
       ELSE /\ cvOut' = [NoConv EXCEPT !.op = "notification_handler", !.route = "raw",
                                       !.header = hdr]
            /\ delivered' = delivered
            /\ event' = [kind |-> "notification", matched |-> FALSE, created |-> 0,
                         raised |-> FALSE, stopped |-> FALSE]
    /\ UNCHANGED <<cvIn, blePc, abort, cancelVars, found, linkUp, exc, k, monVars,
                   streaming_timeout, engine_parameters, futVars, subs, tasks, bleClosePc,
                   health, skVars, fqVars, known_data, has_all_data, parameters, decEvent>>

\* The publisher's accept_engine_data(param, value) task runs: convert_value is
\* applied to the value the handler passed.  cvOut keeps the reading it came from.
CvAccept ==
    /\ delivered # <<>>
    /\ LET task == Head(delivered)
           r == convert_value(task.ptype, task.value)
       IN  /\ accept_engine_data(task.ptype)
           /\ cvOut' = [NoConv EXCEPT !.op = "accept_engine_data", !.route = "telemetry",
                                      !.header = task.header, !.ptype = task.ptype,
                                      !.raw = task.reading, !.raised = r.raised,
                                      !.result = r.result]
    /\ delivered' = Tail(delivered)
    /\ cvIn' = cvIn

\* The arguments of one call: a parameter type and a value, or a table and
\* the bytes of a notification; with each, a ConversionConfig.
Payloads(n) == UNION {[1 .. m -> PayloadBytes] : m \in 0 .. n}

InitTelemetry ==
    /\ InitBle({}, {0}) /\ InitSk /\ ~username /\ InitRetry({1}) /\ InitAccept({FALSE})
    /\ InitDec /\ InitFq /\ InitHealth
    /\ cvIn \in {[NoInput EXCEPT !.ptype = p, !.value = v, !.overrides = c] :
                    p \in 0 .. LastParameterType, v \in CvValues, c \in ConversionConfigs}
            \cup {[NoInput EXCEPT !.table = t, !.data = d, !.overrides = c] :
                    t \in EngineTables, d \in Payloads(MaxPayload), c \in ConversionConfigs}
    /\ cvOut = NoConv
    /\ delivered = <<>>

NextTelemetry ==
    \/ CvLookup
    \/ CvConvertWithConfig
    \/ CvNotify
    \/ CvAccept
    \/ SkAcceptSent
    \/ SkRun
    \/ SkTop
    \/ \E outcome \in {"ok"} : SkConnect(outcome)

SpecTelemetry == InitTelemetry /\ [][NextTelemetry]_vars

----------------------------------------------------------------------------
\* Properties.

DeviceError(h) == h.bluetooth = "False" /\ h.bluetooth_error = "Device error"

\* C1: a failure of a hardware operation while connecting or initializing is
\* raised to the session boundary: the connection is torn down, the bluetooth
\* health becomes false with the message "Device error", and run() is back at
\* the top of its loop, from where it scans again when abort is not set.  A link
\* lost while streaming reaches the session through the disconnect callback: the
\* health becomes false, the signal is resolved, and the iteration ends the same
\* way.  No such failure ends run().
C1_FailureFallsBack ==
    [][ /\ event'.kind = "hw_failure" =>
              \/ blePc' = "disconnecting" /\ exc' = "Exception"
              \/ blePc' = "loop_top" /\ DeviceError(health') /\ ~linkUp'
        /\ (blePc = "disconnecting" /\ exc = "Exception" /\ blePc' # blePc) =>
              blePc' = "loop_top" /\ DeviceError(health') /\ ~linkUp'
        /\ (linkUp /\ ~linkUp') => health'.bluetooth = "False" /\ cancelDone'
        /\ (blePc = "streaming" /\ blePc' # blePc) => blePc' = "disconnecting" /\ exc' = "none"
        /\ (blePc = "disconnecting" /\ exc = "none" /\ blePc' # blePc) =>
              blePc' = "loop_top" /\ ~linkUp'
        /\ (blePc = "loop_top" /\ ~abort) => blePc' = "scanning"
      ]_vars

\* An iteration that had connected has ended by an exception; run() is back in its loop.
C1_Witness ==
    /\ event.kind = "iteration_failed"
    /\ blePc = "loop_top"
    /\ DeviceError(health)
    /\ ~linkUp /\ ~abort

\* C2: a run loop that has ended (returned, or was left by an exception) belongs
\* to a component whose close() was called.
C2_LoopsEndOnlyByClose ==
    /\ skPc \in {"sk_done", "sk_crashed"} => skClosePc # "idle"
    /\ blePc \in {"done", "crashed"} => bleClosePc # "idle"

\* C3: close() sets abort before it resolves the signal (abort is set in every
\* state from its first statement on, and the signal is resolved by close() only
\* afterwards), and once close() has been called run() begins no scan and no
\* connection attempt (a scan or a connect already awaited when close() is called
\* still returns).
C3_CloseStopsSession ==
    /\ [](bleClosePc # "idle" => abort)
    /\ [](bleClosePc = "abort_set" => cancelBy # "close")
    /\ [](cancelBy = "close" => abort)
    /\ [][bleClosePc # "idle" => ~(blePc' \in {"scanning", "connecting"} /\ blePc' # blePc)]_vars

\* close() was called during an iteration, and run() has returned.
C3_Witness ==
    /\ bleClosePc = "done"
    /\ blePc = "done"
    /\ iterated
    /\ event.kind = "none"

\* C4: once close() has been called during a scan, run() ends.
C4_CloseEndsScan == (blePc = "scanning" /\ bleClosePc = "done") ~> (blePc \in {"done", "crashed"})

\* C5: once close() has been called, a publisher that waits to retry makes no
\* further connection attempt.
C5_NoConnectAfterClose ==
    [][(skClosePc # "idle" /\ skPc = "sk_sleep") => skPc' # "sk_connecting"]_vars

\* C6: when an iteration ends the signal is unresolved, and no signal that is
\* resolved was resolved during an iteration that has ended: what an iteration
\* consumes was resolved during that iteration.
C6_FreshSignal ==
    /\ [](~(cancelDone /\ cancelStale))
    /\ [](event.kind = "cancel_consumed" => cancelBy \in {"disconnect", "watchdog", "close"})
    /\ [][(iterated' /\ blePc' = "loop_top" /\ blePc # "loop_top") => ~cancelDone']_vars

\* A later iteration consumes a resolution of its own.
C6_Witness ==
    /\ event.kind = "cancel_consumed"
    /\ iterated
    /\ cancelDone /\ ~cancelStale

C8_EmptyAfterTimeout == event.kind = "param_timeout" => engine_parameters = EmptyTable

\* C9: a descriptive field that is unavailable leaves the initialization on its
\* way: at the next read or at the disable-streaming step.
C9_InfoBestEffort ==
    event.kind = "info_unavailable" => blePc \in {"read_info", "disable_streaming"}

\* C10: a notification whose header is in the dispatch map creates one delivery
\* task per registered receiver.
C10_OneTaskPerReceiver ==
    (event.kind = "notification" /\ event.matched) => event.created = Cardinality(DOMAIN tasks)

\* C11: a trigger on a key that holds a promise (one that register returned)
\* resolves that promise with the value triggered.
C11_TriggerResolves ==
    (fqEvent.op = "trigger" /\ fqEvent.p # 0) =>
        /\ prom[fqEvent.p].state = "resolved"
        /\ prom[fqEvent.p].value = fqEvent.value

\* C12: every promise stored in the map is pending.
C12_StoredArePending == \A key \in FqKeys : fq[key] # 0 => prom[fq[key]].state = "pending"

\* C13: a wait that has timed out leaves its promise pending.
C13_TimeoutLeavesPending ==
    fqEvent.op = "wait_timeout" => prom[fqEvent.p].state = "pending"

\* C14: wait_for_data on a key without an entry returns the default in the same
\* step: the caller is not suspended and nothing of the queue changes.
C14_WaitWithoutEntry ==
    [][(fqEvent'.op = "wait" /\ fq[fqEvent'.key] = 0) =>
          /\ fqEvent'.ret = "returned"
          /\ fqEvent'.value = FqDefault
          /\ ~fqEvent'.suspended
          /\ fqEvent'.raised = "none"
          /\ waiter' = waiter
          /\ fq' = fq /\ prom' = prom]_vars

\* A wait on a key that was registered and triggered before has returned the default.
C14_Witness ==
    /\ fqEvent.op = "wait"
    /\ fqEvent.ret = "returned"
    /\ fqEvent.value = FqDefault
    /\ \E p \in Promises : prom[p].key = fqEvent.key /\ prom[p].state = "resolved"

\* C15: a trigger on the key of a pending promise that a task waits for returns
\* True in its own step, resolves the promise and leaves the waiter suspended;
\* the waiter's next step returns the value triggered.
C15_WaitGetsTriggeredValue ==
    [][ /\ (/\ fqEvent'.op = "trigger"
            /\ waiter.state = "waiting"
            /\ fq[fqEvent'.key] = waiter.p
            /\ prom[waiter.p].state = "pending") =>
              /\ fqEvent'.ret = "True"
              /\ prom'[waiter.p].state = "resolved"
              /\ prom'[waiter.p].value = fqEvent'.value
              /\ waiter' = waiter
        /\ (/\ waiter.state = "waiting"
            /\ prom[waiter.p].state = "resolved"
            /\ waiter' # waiter) =>
              /\ fqEvent'.op = "wait_return"
              /\ fqEvent'.value = prom[waiter.p].value
              /\ fqEvent'.value \in FqValues
      ]_vars

\* A suspended wait has returned a triggered value.
C15_Witness ==
    /\ fqEvent.op = "wait_return"
    /\ fqEvent.value \in FqValues
    /\ prom[fqEvent.p].value = fqEvent.value

\* C16: a trigger on a key without an entry returns False, raises nothing and
\* changes neither the map nor any promise nor the waiter.
C16_TriggerWithoutEntry ==
    [][(fqEvent'.op = "trigger" /\ fq[fqEvent'.key] = 0) =>
          /\ fqEvent'.ret = "False"
          /\ fqEvent'.raised = "none"
          /\ fq' = fq /\ prom' = prom /\ waiter' = waiter]_vars

\* A trigger without an entry has returned False while another key holds a pending promise.
C16_Witness ==
    /\ fqEvent.op = "trigger"
    /\ fqEvent.ret = "False"
    /\ \E key \in FqKeys : fq[key] # 0 /\ prom[fq[key]].state = "pending"

\* C17: a callback is called only for a promise that a trigger has resolved.
C17_CallbackAfterTrigger == \A p \in Promises : prom[p].calls > 0 => prom[p].state = "resolved"

----------------------------------------------------------------------------
\* C18: every connection attempt that fails, whatever the failure, sets the
\* signalk health to false and is followed by one sleep of exactly the
\* configured retry interval and then by the next attempt; the interval never
\* changes, the retry loop has no other way out, and a publisher that sleeps
\* does attempt again.
C18_RetryAfterFixedInterval ==
    /\ [][/\ (skPc = "sk_connecting" /\ skPc' # skPc /\ ~socket_connected') =>
                /\ event'.kind = "connect_failed"
                /\ health'.signalk = "False"
                /\ skPc' = "sk_sleep"
                /\ skSleep' = retry_interval
                /\ skSlept' = 0
          /\ (skPc = "sk_connecting" /\ skPc' # skPc /\ socket_connected') =>
                /\ health'.signalk = "True"
                /\ skPc' \in {"sk_auth_send", "sk_recv"}
          /\ (skPc = "sk_sleep" /\ skPc' # skPc) =>
                /\ skPc' = "sk_connecting"
                /\ skSlept = retry_interval
          /\ retry_interval' = retry_interval]_vars
    /\ (skPc = "sk_sleep") ~> (skPc = "sk_connecting")

\* A failed attempt was followed by a full sleep of the longest interval, and
\* the next attempt is under way although close() has already returned.
C18_Witness ==
    /\ skPc = "sk_connecting"
    /\ event.kind = "retry"
    /\ health.signalk = "False"
    /\ retry_interval = MaxRetryInterval
    /\ skSlept = MaxRetryInterval
    /\ skClosePc = "done"

\* The receive loop is inside an open, healthy connection.
Receiving == skPc = "sk_recv" /\ socket_connected /\ wsOpen

C20_LoginFailureKeepsSession ==
    [][/\ (auth_token' /\ ~auth_token) => (login = "login_ok" /\ event'.kind = "login_ok")
       /\ (login = "pending" /\ login' = "login_failed") =>
                /\ skPc' = "sk_recv"
                /\ socket_connected' /\ socket_connected
                /\ wsOpen' = wsOpen
                /\ health' = health
                /\ auth_token' = auth_token
       /\ event'.kind = "login_failed" =>
                /\ skPc' = skPc
                /\ socket_connected' = socket_connected
                /\ wsOpen' = wsOpen
                /\ skAbort' = skAbort
                /\ health' = health
                /\ auth_token' = auth_token]_vars

\* The callback of a failed login has run; the publisher is still receiving on a
\* healthy connection and holds no token.
C20_Witness ==
    /\ event.kind = "login_failed"
    /\ skPc = "sk_recv"
    /\ socket_connected /\ wsOpen
    /\ health.signalk = "True"
    /\ ~auth_token

----------------------------------------------------------------------------
\* C21: an accept_engine_data call made on an open connection sends exactly one
\* delta for a recognized type; for an unrecognized type it sends nothing when
\* send_unknown_parameters is off and exactly one delta when it is on.
C21_OneDeltaPerAccept ==
    (accEvent.connected /\ accEvent.outcome \in {"skipped", "raised", "sent"}) =>
        accEvent.sent = IF is_unknown(accEvent.ptype) /\ ~send_unknown THEN 0 ELSE 1

\* C22: a value accepted while the socket is marked disconnected is dropped and
\* never handed to the websocket, the drop is logged exactly when it is the first
\* drop since the last successful send, and so at most one drop is logged between
\* two successful sends.
C22_OneDropLogged ==
    /\ [](logsSince <= 1)
    /\ [][/\ (~socket_connected /\ accEvent' # accEvent) => accEvent'.sent = 0
          /\ dropsSince' = dropsSince + 1 =>
                /\ accEvent'.outcome = "dropped"
                /\ accEvent'.sent = 0
                /\ accPc' = "idle"
                /\ accEvent'.logged = (dropsSince = 0)
          /\ (accEvent' # accEvent /\ accEvent'.outcome \in {"sending", "sent"}) => socket_connected
          /\ (accEvent' # accEvent /\ accEvent'.outcome = "sent") => logsSince' = 0 /\ dropsSince' = 0]_vars

\* A connection was made and lost, and the values of one outage were dropped
\* one after the other: only the first drop was logged.
C22_Witness ==
    /\ accEvent.outcome = "dropped"
    /\ ~accEvent.logged
    /\ dropsSince = MaxDrops
    /\ logsSince = 1
    /\ health.signalk_error = "websocket connection was closed"

----------------------------------------------------------------------------
\* C23: the bluetooth health is true only while the hardware connection is open
\* and the signalk health only while the socket is connected; each is false
\* while its component scans or retries and once close() has returned on it.
C23_HealthReflectsConnectivity ==
    /\ health.bluetooth = "True" => linkUp
    /\ health.signalk = "True" => socket_connected
    /\ blePc = "scanning" => health.bluetooth = "False"
    /\ skPc \in {"sk_connecting", "sk_sleep"} => health.signalk = "False"
    /\ bleClosePc = "done" => health.bluetooth = "False"
    /\ skClosePc = "done" => health.signalk = "False"

----------------------------------------------------------------------------
\* The chunks of data by ascending sequence index, for distinct indices.
InOrder(data) ==
    [i \in 1 .. Len(data) |->
        CHOOSE c \in {data[j] : j \in 1 .. Len(data)} :
            Cardinality({j \in 1 .. Len(data) : data[j][1] < c[1]}) = i - 1]

DistinctIndices(data) == Cardinality(Indices(data)) = Len(data)

\* C24: for chunks of distinct indices that form a well-formed table when
\* delivered in order, combine_and_parse_data returns, in whatever order they
\* were added, the parameter list of the in-order delivery.
C24_OrderIndependent ==
    [][(/\ decEvent'.op = "combine"
        /\ DistinctIndices(known_data)
        /\ parse_params(join(InOrder(known_data)), "None").raised = "none") =>
            /\ decEvent'.raised = "none"
            /\ has_all_data' = "True"
            /\ parameters' = parse_params(join(InOrder(known_data)), "None").params]_vars

\* The three chunks of the table were added last chunk first, and parsed.
C24_Witness ==
    /\ decEvent.op = "combine"
    /\ known_data = <<TableChunks[3], TableChunks[1], TableChunks[2]>>
    /\ has_all_data = "True"
    /\ Len(parameters) = 2

\* Bytes 1 and 2 of a buffer as a 16-bit little-endian integer.
le16(buf) == int_from_bytes_little(slice(buf, 1, 3))

\* C25: a buffer that starts with the magic byte gets the length-mismatch error
\* exactly when the 16-bit little-endian integer in its bytes 1 and 2 differs
\* from the number of bytes from byte 3 on.
C25_SixteenBitLength ==
    LET buf == combined(known_data) IN
    (decEvent.op = "combine" /\ buf # <<>> /\ buf[1] = MagicByte) =>
        (decEvent.raised = "Expected bytes" <=> le16(buf) # actual_length(buf))

\* C26: a buffer that passes the magic and length checks and whose record area
\* is not a whole number of 4-byte records is refused: the call raises, returns
\* no list, and the state becomes invalid.
C26_PartialRecordFails ==
    LET buf == combined(known_data) IN
    (/\ decEvent.op = "combine"
     /\ buf # <<>> /\ buf[1] = MagicByte
     /\ le16(buf) = actual_length(buf)
     /\ actual_length(buf) >= 2
     /\ (actual_length(buf) - 2) % 4 # 0) =>
        /\ decEvent.raised # "none"
        /\ decEvent.ret # "list"
        /\ has_all_data = "False"

\* The decoder holds the first n chunks of the fixture, 0 < n < 10.
HoldsPrefix ==
    \E n \in 1 .. (Len(Fixture) - 1) : Indices(known_data) = {Fixture[i][1] : i \in 1 .. n}

\* C27: with the last chunk, or several trailing chunks, of the ten-chunk table
\* withheld, combine_and_parse_data raises the length-mismatch error and sets
\* the state invalid, and has_all_data reads false.
C27_WithheldChunksFail ==
    [][HoldsPrefix =>
        /\ decEvent'.op = "combine" =>
                (decEvent'.raised = "Expected bytes" /\ has_all_data' = "False")
        /\ decEvent'.op = "has_all_data" => decEvent'.ret = "False"]_vars

\* Nine chunks are held, the parse has failed and has_all_data was read after it.
C27_Witness ==
    /\ HoldsPrefix /\ Len(known_data) = 9
    /\ decEvent.op = "has_all_data" /\ decEvent.prev = "combine"
    /\ decEvent.ret = "False"

\* C28: on a decoder without chunks combine_and_parse_data raises and the state
\* stays unknown; has_all_data reads None before and after the failed call.
C28_EmptyStaysUnknown ==
    [][known_data = <<>> =>
        /\ has_all_data = "None"
        /\ decEvent'.op = "combine" =>
                (decEvent'.raised = "No data to parse." /\ has_all_data' = "None")
        /\ decEvent'.op = "has_all_data" => decEvent'.ret = "None"]_vars

\* has_all_data was read on the empty decoder right after the failed parse.
C28_Witness ==
    /\ known_data = <<>>
    /\ decEvent.op = "has_all_data" /\ decEvent.prev = "combine"
    /\ decEvent.ret = "None"

\* C29: add() leaves the cached state unknown whatever it was, and the
\* has_all_data read that follows returns the outcome of parsing everything added
\* so far: true exactly when that parse succeeds.
C29_AddInvalidatesCache ==
    [][/\ decEvent'.op = "add" => has_all_data' = "None"
       /\ (decEvent.op = "add" /\ decEvent'.op = "has_all_data") =>
            /\ decEvent'.ret = has_all_data'
            /\ decEvent'.ret = "True" <=>
                    parse_params(combined(known_data), "None").raised = "none"]_vars

\* A decoder that had reported false got the missing chunk and now reports true.
C29_Witness ==
    /\ decEvent.op = "has_all_data" /\ decEvent.prev = "add"
    /\ decEvent.before = "False"
    /\ decEvent.ret = "True"
    /\ Len(known_data) = MaxChunks

\* C30, as the code has it: the ten fixture chunks, in whatever order they were
\* added, decode to 45 parameter entries with has_all_data true.
C30_FixtureDecodes ==
    [][Missing = {} =>
        /\ decEvent'.op = "combine" =>
                /\ decEvent'.raised = "none"
                /\ Len(parameters') = 45
                /\ has_all_data' = "True"
        /\ decEvent'.op = "has_all_data" => decEvent'.ret = "True"]_vars

\* The ten chunks were added with the last chunk first, and parsed.
C30_Witness ==
    /\ Missing = {}
    /\ known_data[1] = Fixture[10]
    /\ decEvent.op = "combine"
    /\ decEvent.count = 45
    /\ has_all_data = "True"

\* C30 as stated: the ten fixture chunks decode to exactly 29 entries.
C30_TwentyNineEntries ==
    (Missing = {} /\ decEvent.op = "combine") =>
        (decEvent.count = 29 /\ has_all_data = "True")

\* C40, as stated: once combine_and_parse_data has been attempted on a decoder
\* that holds at least one chunk the cached state is True or False, never
\* None, whatever the chunks contain; so a has_all_data read that follows a
\* parse attempt or another read, with no add in between, does not parse again.
C40_ParseSettlesState ==
    /\ (decEvent.op = "combine" /\ known_data # <<>>) => has_all_data \in {"True", "False"}
    /\ (decEvent.op = "has_all_data" /\ decEvent.prev \in {"combine", "has_all_data"}
            /\ known_data # <<>>) => has_all_data \in {"True", "False"}

\* C36: at most one watchdog task is alive at any time, the task alive is the
\* one the running iteration of _device_init_and_loop created, and a
\* cancellation signal resolved by the watchdog is the signal of the iteration
\* that is still running: once an iteration has ended its watchdog does nothing.
C36_OneWatchdogPerIteration ==
    /\ watchdogs <= 1
    /\ watchdogs = (IF monitor = "sleeping" THEN 1 ELSE 0)
    /\ watchdogs > 0 => blePc \in {"streaming", "disconnecting"}
    /\ cancelBy = "watchdog" => (blePc \in {"streaming", "disconnecting"} /\ ~cancelStale)
    /\ event.kind \in {"watchdog_fired", "watchdog_passed"} =>
            blePc \in {"streaming", "disconnecting"}

\* An iteration has just ended while its watchdog was still sleeping: the
\* finally clause cancelled the task and no watchdog is left.
C36_Witness ==
    /\ event.kind = "iteration_ended"
    /\ event.stopped
    /\ streaming_timeout > 0
    /\ watchdogs = 0
    /\ blePc = "loop_top"

\* C37, as stated: whenever a parameter-table request or a configuration
\* request waits, also in an iteration that follows a timed-out request, the
\* promises it waits on are pending ones of its own: none was cancelled by an
\* earlier timeout and left in the notification queue.
C37_FreshPromisesAfterTimeout ==
    /\ blePc \in {"param_write", "param_gather"} =>
            (~poisoned /\ \A i \in ChunkKeys : queue[i] # "cancelled")
    /\ blePc \in {"cfg_write", "cfg_wait"} => cfgFut # "cancelled"

\* C35, as stated: the per-chunk entries are in the notification queue before
\* the request command is written, and while the request is being written or
\* awaited every notification on the configuration characteristic whose first
\* byte is a chunk index i, and whose entry is pending, resolves the entry
\* "<uuid>+i" for the gather and removes it from the queue.
C35_ChunkResolvesEntry ==
    /\ [][(blePc # "param_write" /\ blePc' = "param_write") =>
                \A i \in ChunkKeys : queue'[i] # "absent"]_vars
    /\ [][\A b0 \in ChunkKeys, b1 \in Bytes1 :
            (/\ blePc \in {"param_write", "param_gather"}
             /\ queue[b0] = "pending"
             /\ notification_handler(CfgUuid, b0, b1))
            => (b0 \in got' /\ queue'[b0] = "absent")]_vars

\* C33: whatever the formula and the value, when the formula is None, is
\* rejected by the pattern, does not parse, divides by zero or does not give a
\* number, safe_eval_formula raises nothing and returns the value it was given.
C33_FallsBackToInput ==
    cvOut.op = "safe_eval_formula" =>
        /\ cvOut.raised = "none"
        /\ (~cvIn.formula.given \/ ~cvOut.accepted \/ cvOut.caught # "none")
                => cvOut.result = cvIn.value

\* A formula that divides by zero was evaluated with the value 2: the
\* ZeroDivisionError was caught and 2 came back.
C33_Witness ==
    /\ cvOut.op = "safe_eval_formula"
    /\ cvOut.caught = "ZeroDivisionError"
    /\ cvIn.value = Num(2)
    /\ cvOut.result = Num(2)

\* The tokens of the formula grammar: numbers, the division sign and
\* parentheses, `value`, and the functions abs, min, max, round and pow.
InGrammar(tokens) ==
    \A i \in 1 .. Len(tokens) :
        tokens[i] \in NumberTokens \cup {"/", "(", ")", "value", "abs", "min", "max", "round", "pow"}

\* C34, as stated: a formula reaches eval only if every one of its tokens, at
\* whatever position, belongs to the grammar.
C34_OnlyGrammarEvaluated ==
    (cvOut.op = "safe_eval_formula" /\ cvOut.evaluated) => InGrammar(cvIn.formula.tokens)


\* The conversion the default table is to hold for a parameter type: the six
\* named conversions, and the value itself for every other type.
DefaultConversion(ptype, v) ==
    CASE ptype = 0 -> rpm_to_hertz(v)
      [] ptype = 1 -> celsius_to_kelvin(v)
      [] ptype = 2 -> millivolts_to_volts(v)
      [] ptype = 4 -> minutes_to_seconds(v)
      [] ptype = 5 -> cl_per_hour_to_m3_per_sec(v)
      [] ptype = 8 -> convert_pressure_to_pascals(v)
      [] OTHER -> identity_function(v)

\* C31, as stated: for every one of the sixteen parameter types the default
\* lookup succeeds, and applying what it returned to v gives v / 60 for the
\* RPM, v + 273.15 for the coolant temperature, v * 2.77778e-9 for the fuel
\* flow, v * 60 for the runtime, v / 1000 for the battery voltage, v / 1.25
\* for the oil pressure, and v itself for each of the ten unknown types.
C31_DefaultLookupSucceeds ==
    cvOut.op = "conversion_for_parameter_type" =>
        /\ cvOut.raised = "none"
        /\ same_value(cvOut.result, DefaultConversion(cvOut.ptype, cvOut.raw))

\* C32, as stated: when the configuration holds an override formula for a
\* parameter type, the value the notification handler hands to the receivers
\* and the value the publisher sends for that type are the formula's result
\* for the reading; a type without an override gets its default conversion.
C32_OverrideIsUsed ==
    (/\ cvOut.op \in {"notification_handler", "accept_engine_data"}
     /\ cvOut.route = "telemetry"
     /\ cvOut.raised = "none")
    => same_value(cvOut.result,
                  convert_with_config(cvOut.ptype, cvOut.raw, cvIn.overrides).result)

\* C38, as stated: the value of a delta the publisher has sent for a reading
\* v of a parameter type is that type's default conversion applied to v once.
C38_ConvertedExactlyOnce ==
    (cvOut.op = "accept_engine_data" /\ accEvent.outcome = "sent")
    => same_value(cvOut.result, DefaultConversion(cvOut.ptype, cvOut.raw))

\* C39, as stated: nothing is dispatched as telemetry for a descriptor whose
\* notification header is 0, and a notification of fewer than two bytes or
\* with two leading zero bytes is handled as a raw notification.
C39_DisabledNeverDispatched ==
    cvOut.op = "notification_handler" =>
        /\ cvOut.route = "telemetry" => cvOut.header # 0
        /\ (Len(cvIn.data) < 2 \/ cvOut.header = 0) => cvOut.route = "raw"

====
